---- MODULE Spec2Model ----
(***************************************************************************)
(* Model of the translation backend of mei-translate:                      *)
(*   - the free-translation racer (freeTranslate),                         *)
(*   - the retrying fetch of the LLM providers (fetchWithRetry),           *)
(*   - the single translation path (translateWithUserKeys, POST /translate)*)
(*   - the dual translation handler (POST /translate/dual).                *)
(* Promises are modelled by their state (pending / fulfilled / rejected)   *)
(* and their reactions by a FIFO job queue, as the event loop runs them.   *)
(***************************************************************************)
EXTENDS Integers, Sequences, FiniteSets, TLC

\* ------------------------------------------------------------------------
\* Bounds
\* ------------------------------------------------------------------------

\* number of POST /api/translate requests made one after the other
MaxCalls == 2

\* ------------------------------------------------------------------------
\* Values
\* ------------------------------------------------------------------------

\* the absent value (undefined / null)
None == "<none>"

\* request texts; the empty string is a falsy text
Texts == {"hello", "nihao"}

\* language codes as callers send them
SourceLangs == {"auto", "EN-us"}
TargetLangs == {"zh-CN"}

\* sourceLang.toLowerCase().split('-')[0], on the codes above
NormLang(l) ==
  CASE l = "EN-us" -> "en"
    [] l = "zh-CN" -> "zh"
    [] l = "en-GB" -> "en"
    [] OTHER -> l

\* the three free backends, in the order of the providers array
Backends == <<"google-direct", "mymemory", "lingva">>
BackendSet == {Backends[i] : i \in 1..3}

\* translations a backend may answer with
MachineTexts == {"mt1"}

\* An error message is a sequence of fragments (their concatenation is the
\* string).  Fragments that contain the substring 'aborted':
AbortedWonFrag == " aborted (another provider won)"
AbortedFrags == {AbortedWonFrag, "Unexpected token R, Request aborted is not valid JSON"}

\* errors a backend call can throw by itself (not by cancellation)
BackendErrors(b) ==
  CASE b = "google-direct" ->
         {[name |-> "Error", message |-> <<"Google Direct error: 500">>]}
    [] b = "mymemory" ->
         {[name |-> "Error", message |-> <<"MyMemory daily quota exceeded">>]}
    [] b = "lingva" ->
         {[name |-> "Error", message |-> <<"Lingva API error: 500">>],
          [name |-> "SyntaxError",
           message |-> <<"Unexpected token R, Request aborted is not valid JSON">>]}

\* the rejection of a fetch whose signal was aborted
AbortError == [name |-> "AbortError", message |-> <<"The operation was aborted">>]

\* String.prototype.includes('aborted') on a message
IncludesAborted(m) == \E i \in DOMAIN m : m[i] \in AbortedFrags \/ m[i] = "The operation was aborted"

\* msgs.join(sep)
RECURSIVE Join(_, _)
Join(msgs, sep) ==
  IF msgs = <<>> THEN <<>>
  ELSE IF Len(msgs) = 1 THEN msgs[1]
  ELSE msgs[1] \o <<sep>> \o Join(Tail(msgs), sep)

\* m occurs in the string s (both as fragment sequences)
ContainsMsg(s, m) ==
  \E i \in 0..(Len(s) - Len(m)) : \A j \in 1..Len(m) : s[i + j] = m[j]

\* ------------------------------------------------------------------------
\* State
\* ------------------------------------------------------------------------
VARIABLES
  ftState,      \* freeTranslate's promise: "idle" | "running" | "fulfilled" | "rejected"
  ftArgs,       \* the arguments freeTranslate was called with
  ftValue,      \* its result or its error
  backendArgs,  \* per backend: the arguments its call received, None before the call
  bstate,       \* per backend: state of provider.fn()'s promise
  bvalue,       \* per backend: result or error of provider.fn()
  jobs,         \* settled provider.fn() promises whose reaction has not run yet (FIFO)
  wstate,       \* per backend: state of its racePromises entry
  wvalue,       \* per backend: value or error of its racePromises entry
  aborted,      \* controller.signal.aborted
  anyState,     \* state of Promise.any(racePromises)
  anyValue,     \* its value, or the errors array of its AggregateError
  settleOrder,  \* history: the backends in the order their calls completed
  pendingAtAbort, \* history: the backends still in flight when abort() was first called
  \* --- fetchWithRetry ---
  rpc,          \* "idle" | "fetch" | "wait" | "returned" | "thrown"
  ri,           \* the loop variable i
  lastError,    \* lastError, None while null
  rResult,      \* the response returned, or the error thrown
  attempts,     \* history: the vendor's answer to each fetch, in order
  waits,        \* history: the backoff delays (ms) waited, in order
  \* --- translateWithUserKeys, the cache and the memory store ---
  kv,           \* env.TRANSLATION_CACHE: cache key -> CachedTranslation
  kvExpired,    \* history: keys that expired since they were last read or written
  mem,          \* translation_memory: <<source_hash, source_lang, target_lang>> -> row
  tpc,          \* translateWithUserKeys: "idle" | "cacheRead" | "chat" | "cacheWrite" | "done"
  tArgs,        \* its arguments, with sourceLang resolved
  tSel,         \* selectedProvider / apiKey / specificModel
  tText,        \* translatedText (response.content.trim())
  tState,       \* its promise: "idle" | "pending" | "fulfilled" | "rejected"
  tValue,       \* its TranslationResult or its error
  tTrace,       \* history of this call: cache read, chat calls, cache write
  \* --- POST /translate ---
  hpc,          \* "idle" | "translating" | "saving" | "responded"
  hBody,        \* the request body
  hResp,        \* the response: status and JSON body
  hMemWrite,    \* history: outcome of saveToMemory in this request
  prev,         \* history: summary of the request before this one
  calls,        \* number of requests made
  \* --- POST /translate/dual ---
  dpc,          \* "idle" | "running" | "responded"
  dBody,        \* the request body
  hasLLMConfig, \* !!hasLLMConfig
  machineResult, \* <<>> while machineTranslatePromise is pending, else <<its value>>
  llmResult,    \* <<>> while llmTranslatePromise is pending, else <<its value>>
  dOrder,       \* history: the halves in the order they settled
  dResp,        \* the response: status and JSON body
  \* --- concurrent writers of translation_memory ---
  rows,         \* translation_memory as the set of its rows
  nextId,       \* the next AUTOINCREMENT id
  memClock,     \* CURRENT_TIMESTAMP: number of statements executed so far
  saver,        \* per request: its position, arguments and outcome
  \* --- translateBatch ---
  bpc,          \* "idle" | "cacheRead" | "chat" | "done"
  bArgs,        \* its arguments, with sourceLang resolved
  bCached,      \* cachedResults: text -> cached translatedText
  bSel,         \* selectedProvider / apiKey
  bBatches,     \* batches
  bIdx,         \* index of the batch whose chat call is awaited
  bNew,         \* newTranslations: text -> translation
  bTokens,      \* totalTokens
  bState,       \* its promise: "idle" | "pending" | "fulfilled" | "rejected"
  bValue,       \* its result or its error
  bTrace,       \* history: the chat calls made, each with its batch and response
  kvQueue,      \* setCachedTranslation calls started and not yet settled
  \* --- POST /translate/batch ---
  qpc,          \* "idle" | "translating" | "responded"
  qBody,        \* the request body
  qResp,        \* the response: status and JSON body
  \* --- refineTranslation ---
  rfpc,         \* "idle" | "chat" | "done"
  rfReq,        \* the RefineRequest
  rfState,      \* its promise: "idle" | "pending" | "fulfilled" | "rejected"
  rfValue,      \* its result or its error
  rfTrace,      \* history: the chat calls made
  \* --- the batch splitter of startWebTranslation ---
  spc,          \* "loop" | "done"
  textNodes,    \* the collected items: <<[id, len], ...>>
  sI,           \* index of the next item of the for loop
  currentBatch, \* currentBatch
  currentLength, \* currentLength
  batches,      \* batches
  \* --- generateCacheKey ---
  keyCalls,     \* history: the calls made, each with its arguments and its key
  \* --- detectLanguage of the free providers ---
  dtpc,         \* "idle" | "fetch" | "body" | "done"
  dtText,       \* the text: [len, cjk], its length and its count of CJK characters
  dtTimer,      \* the 3 s timer: "none" | "armed" | "fired"
  dtCleared,    \* clearTimeout(timeoutId) has run
  dtAborted,    \* controller.signal.aborted
  dtState,      \* the returned promise: "idle" | "pending" | "fulfilled" | "rejected"
  dtValue,      \* its value
  dtVendor,     \* history: what the network call came to
  \* --- page translation (extension) ---
  isTranslating, \* the module flag
  run,          \* the calls of startWebTranslation: [pc, n, idx]
  transNodes,   \* the translation nodes in the page: <<run, batch>>
  pgQuiet,      \* history: stopWebTranslation has returned and no start was called since
  pgLate,       \* history: what runs did while pgQuiet
  \* --- the useRefine hook (extension) ---
  messages,     \* the messages state: <<[id, role, content], ...>>
  isRefining,   \* the isRefining state
  hkError,      \* the error state: <<>> (null) or <<message>>
  messageCounter, \* messageCounter of generateId
  hkCall,       \* the calls of refine: [pc, userId, instruction, history, before, alone, outcome]
  hkLast,       \* history: the call that settled last, 0 after any later refine or reset
  \* --- dualTranslate of useTranslate and the PDF viewer (extension) ---
  dualResult,   \* the hook's dualResult: 0 (null) or the request whose response it holds
  pdfResult,    \* the viewer's dualResult, likewise
  vwError,      \* the hook's error: <<>> (null) or <<message>>
  vwReq         \* the calls of dualTranslate: [pc, target, outcome]

raceVars == <<ftState, ftArgs, ftValue, backendArgs, bstate, bvalue, jobs, wstate,
              wvalue, aborted, anyState, anyValue, settleOrder, pendingAtAbort>>

retryVars == <<rpc, ri, lastError, rResult, attempts, waits>>

trVars == <<kv, kvExpired, mem, tpc, tArgs, tSel, tText, tState, tValue, tTrace>>
routeVars == <<hpc, hBody, hResp, hMemWrite, prev, calls>>

dualVars == <<dpc, dBody, hasLLMConfig, machineResult, llmResult, dOrder, dResp>>

memVars == <<rows, nextId, memClock, saver>>

batchVars == <<bpc, bArgs, bCached, bSel, bBatches, bIdx, bNew, bTokens, bState, bValue,
               bTrace, kvQueue>>
batchRouteVars == <<qpc, qBody, qResp>>

\* the state of the components that the handlers above never touch
refineVars == <<rfpc, rfReq, rfState, rfValue, rfTrace>>

splitVars == <<spc, textNodes, sI, currentBatch, currentLength, batches>>

detectVars == <<dtpc, dtText, dtTimer, dtCleared, dtAborted, dtState, dtValue, dtVendor>>

pageVars == <<isTranslating, run, transNodes, pgQuiet, pgLate>>

hookVars == <<messages, isRefining, hkError, messageCounter, hkCall, hkLast>>

viewVars == <<dualResult, pdfResult, vwError, vwReq>>

lateVars == <<detectVars, pageVars, hookVars, viewVars>>

restVars == <<memVars, batchVars, batchRouteVars, refineVars, splitVars, keyCalls, lateVars>>

earlyVars == <<raceVars, retryVars, trVars, routeVars, dualVars, memVars, batchVars,
               batchRouteVars, refineVars, splitVars, keyCalls>>

vars == <<raceVars, retryVars, trVars, routeVars, dualVars, restVars>>

otherThanRace == <<retryVars, trVars, routeVars, dualVars, restVars>>
otherThanRetry == <<raceVars, trVars, routeVars, dualVars, restVars>>
otherThanTr == <<raceVars, retryVars, routeVars, dualVars, restVars>>
otherThanTrRoute == <<raceVars, retryVars, dualVars, restVars>>
otherThanMem == <<raceVars, retryVars, trVars, routeVars, dualVars, batchVars, batchRouteVars,
                  refineVars, splitVars, keyCalls, lateVars>>
\* translateBatch shares the cache with translateWithUserKeys
trVarsButKv == <<kvExpired, mem, tpc, tArgs, tSel, tText, tState, tValue, tTrace>>
otherThanBatch == <<raceVars, retryVars, trVarsButKv, routeVars, dualVars, memVars, refineVars,
                    splitVars, keyCalls, lateVars>>
otherThanRefine == <<raceVars, retryVars, trVars, routeVars, dualVars, memVars, batchVars,
                     batchRouteVars, splitVars, keyCalls, lateVars>>
otherThanSplit == <<raceVars, retryVars, trVars, routeVars, dualVars, memVars, batchVars,
                    batchRouteVars, refineVars, keyCalls, lateVars>>
otherThanDetect == <<earlyVars, pageVars, hookVars, viewVars>>
otherThanPage == <<earlyVars, detectVars, hookVars, viewVars>>
otherThanHook == <<earlyVars, detectVars, pageVars, viewVars>>
otherThanView == <<earlyVars, detectVars, pageVars, hookVars>>
otherThanKey == <<raceVars, retryVars, trVars, routeVars, dualVars, memVars, batchVars,
                  batchRouteVars, refineVars, splitVars, lateVars>>

\* ------------------------------------------------------------------------
\* freeTranslate
\* ------------------------------------------------------------------------
InitRace ==
  /\ ftState = "idle"
  /\ ftArgs = None
  /\ ftValue = None
  /\ backendArgs = [b \in BackendSet |-> None]
  /\ bstate = [b \in BackendSet |-> "idle"]
  /\ bvalue = [b \in BackendSet |-> None]
  /\ jobs = <<>>
  /\ wstate = [b \in BackendSet |-> "idle"]
  /\ wvalue = [b \in BackendSet |-> None]
  /\ aborted = FALSE
  /\ anyState = "idle"
  /\ anyValue = None
  /\ settleOrder = <<>>
  /\ pendingAtAbort = {}

\* freeTranslate up to its first suspension: the language codes are
\* normalised, the controller is created and providers.map starts every
\* backend with the same text, languages and signal.
StartFreeTranslate(text, sourceLang, targetLang) ==
  LET srcLang == IF sourceLang = "auto" THEN "auto" ELSE NormLang(sourceLang)
      tgtLang == NormLang(targetLang)
  IN /\ ftState = "idle"
     /\ ftState' = "running"
     /\ ftArgs' = [text |-> text, sourceLang |-> sourceLang, targetLang |-> targetLang]
     /\ backendArgs' = [b \in BackendSet |->
                          [text |-> text, sourceLang |-> srcLang, targetLang |-> tgtLang]]
     /\ bstate' = [b \in BackendSet |-> "pending"]
     /\ wstate' = [b \in BackendSet |-> "pending"]
     /\ anyState' = "pending"
     /\ aborted' = FALSE
     /\ UNCHANGED <<ftValue, bvalue, jobs, wvalue, anyValue, settleOrder, pendingAtAbort>>

\* detectedSourceLang of a backend's result: data[2] of Google, the
\* optional detectedLanguage of MyMemory, none for Lingva
DetectedBy(b) == IF b = "google-direct" THEN "en" ELSE None

\* a backend call completes with a translation; only possible while its
\* fetch has not been cancelled
BackendResolve(b, t) ==
  /\ bstate[b] = "pending"
  /\ ~aborted
  /\ bstate' = [bstate EXCEPT ![b] = "resolved"]
  /\ bvalue' = [bvalue EXCEPT ![b] = [translatedText |-> t, provider |-> b,
                                      detectedSourceLang |-> DetectedBy(b)]]
  /\ jobs' = Append(jobs, b)
  /\ settleOrder' = Append(settleOrder, b)
  /\ UNCHANGED <<ftState, ftArgs, ftValue, backendArgs, wstate, wvalue, aborted,
                 anyState, anyValue, pendingAtAbort>>
  /\ UNCHANGED otherThanRace

\* a backend call fails by itself (HTTP status, bad body, quota, network)
BackendReject(b, e) ==
  /\ bstate[b] = "pending"
  /\ ~aborted
  /\ e \in BackendErrors(b)
  /\ bstate' = [bstate EXCEPT ![b] = "rejected"]
  /\ bvalue' = [bvalue EXCEPT ![b] = e]
  /\ jobs' = Append(jobs, b)
  /\ settleOrder' = Append(settleOrder, b)
  /\ UNCHANGED <<ftState, ftArgs, ftValue, backendArgs, wstate, wvalue, aborted,
                 anyState, anyValue, pendingAtAbort>>
  /\ UNCHANGED otherThanRace

\* a backend call whose signal was aborted rejects with an AbortError
BackendAborted(b) ==
  /\ bstate[b] = "pending"
  /\ aborted
  /\ bstate' = [bstate EXCEPT ![b] = "rejected"]
  /\ bvalue' = [bvalue EXCEPT ![b] = AbortError]
  /\ jobs' = Append(jobs, b)
  /\ settleOrder' = Append(settleOrder, b)
  /\ UNCHANGED <<ftState, ftArgs, ftValue, backendArgs, wstate, wvalue, aborted,
                 anyState, anyValue, pendingAtAbort>>
  /\ UNCHANGED otherThanRace

\* Promise.any over the racePromises: fulfilled by the first fulfilled
\* entry, rejected once every entry is rejected; <<state, value>>.
\* The errors array of the AggregateError is in the order of the input.
PromiseAny(st, val, ws, wv) ==
  IF st # "pending" THEN <<st, val>>
  ELSE IF \E b \in BackendSet : ws[b] = "fulfilled"
    THEN <<"fulfilled", wv[CHOOSE b \in BackendSet : ws[b] = "fulfilled"]>>
  ELSE IF \A b \in BackendSet : ws[b] = "rejected"
    THEN <<"rejected", [i \in 1..3 |-> wv[Backends[i]]]>>
  ELSE <<st, val>>

\* RaceWrapper without the controller.abort() call
RaceWrapper_NoAbort ==
  /\ jobs # <<>>
  /\ LET b == Head(jobs)
         ok == bstate[b] = "resolved"
         err == IF bvalue[b].name = "AbortError"
                  THEN [name |-> "Error", message |-> <<b, AbortedWonFrag>>]
                  ELSE bvalue[b]
         ws == [wstate EXCEPT ![b] = IF ok THEN "fulfilled" ELSE "rejected"]
         wv == [wvalue EXCEPT ![b] = IF ok THEN bvalue[b] ELSE err]
         any == PromiseAny(anyState, anyValue, ws, wv)
     IN /\ jobs' = Tail(jobs)
        /\ wstate' = ws
        /\ wvalue' = wv
        /\ aborted' = aborted
        /\ pendingAtAbort' = IF ok /\ pendingAtAbort = {} /\ anyState = "pending"
                               THEN {x \in BackendSet : bstate[x] = "pending"}
                               ELSE pendingAtAbort
        /\ anyState' = any[1]
        /\ anyValue' = any[2]
  /\ UNCHANGED <<ftState, ftArgs, ftValue, backendArgs, bstate, bvalue, settleOrder>>
  /\ UNCHANGED otherThanRace

\* RaceWrapper that calls controller.abort() in the catch clause as well
RaceWrapper_AbortOnFailure ==
  /\ jobs # <<>>
  /\ LET b == Head(jobs)
         ok == bstate[b] = "resolved"
         err == IF bvalue[b].name = "AbortError"
                  THEN [name |-> "Error", message |-> <<b, AbortedWonFrag>>]
                  ELSE bvalue[b]
         ws == [wstate EXCEPT ![b] = IF ok THEN "fulfilled" ELSE "rejected"]
         wv == [wvalue EXCEPT ![b] = IF ok THEN bvalue[b] ELSE err]
         any == PromiseAny(anyState, anyValue, ws, wv)
     IN /\ jobs' = Tail(jobs)
        /\ wstate' = ws
        /\ wvalue' = wv
        /\ aborted' = TRUE
        /\ pendingAtAbort' = IF ~aborted
                               THEN {x \in BackendSet : bstate[x] = "pending"}
                               ELSE pendingAtAbort
        /\ anyState' = any[1]
        /\ anyValue' = any[2]
  /\ UNCHANGED <<ftState, ftArgs, ftValue, backendArgs, bstate, bvalue, settleOrder>>
  /\ UNCHANGED otherThanRace

\* the reaction of one racePromises entry to its settled provider.fn():
\* on success abort the others and fulfil; on an AbortError reject with the
\* '<name> aborted (another provider won)' error; else rethrow.
RaceWrapper ==
  /\ jobs # <<>>
  /\ LET b == Head(jobs)
         ok == bstate[b] = "resolved"
         err == IF bvalue[b].name = "AbortError"
                  THEN [name |-> "Error", message |-> <<b, AbortedWonFrag>>]
                  ELSE bvalue[b]
         ws == [wstate EXCEPT ![b] = IF ok THEN "fulfilled" ELSE "rejected"]
         wv == [wvalue EXCEPT ![b] = IF ok THEN bvalue[b] ELSE err]
         any == PromiseAny(anyState, anyValue, ws, wv)
     IN /\ jobs' = Tail(jobs)
        /\ wstate' = ws
        /\ wvalue' = wv
        /\ aborted' = (aborted \/ ok)
        /\ pendingAtAbort' = IF ok /\ ~aborted
                               THEN {x \in BackendSet : bstate[x] = "pending"}
                               ELSE pendingAtAbort
        /\ anyState' = any[1]
        /\ anyValue' = any[2]
  /\ UNCHANGED <<ftState, ftArgs, ftValue, backendArgs, bstate, bvalue, settleOrder>>
  /\ UNCHANGED otherThanRace

\* the message freeTranslate builds from the AggregateError
AggregateMessage(errors) ==
  LET kept == SelectSeq(errors, LAMBDA e : ~IncludesAborted(e.message))
      msgs == [i \in 1..Len(kept) |-> kept[i].message]
      joined == Join(msgs, "; ")
  IN <<"All providers failed: ">> \o (IF joined = <<>> THEN <<"unknown error">> ELSE joined)

\* freeTranslate resumes after await Promise.any(...)
FreeTranslateSettle ==
  /\ ftState = "running"
  /\ anyState \in {"fulfilled", "rejected"}
  /\ IF anyState = "fulfilled"
       THEN /\ ftState' = "fulfilled"
            /\ ftValue' = anyValue
       ELSE /\ ftState' = "rejected"
            /\ ftValue' = [name |-> "Error", message |-> AggregateMessage(anyValue)]
  /\ UNCHANGED <<ftArgs, backendArgs, bstate, bvalue, jobs, wstate, wvalue, aborted,
                 anyState, anyValue, settleOrder, pendingAtAbort>>
  /\ UNCHANGED otherThanRace

FreeTranslateCall ==
  /\ \E text \in Texts, s \in SourceLangs, t \in TargetLangs : StartFreeTranslate(text, s, t)
  /\ UNCHANGED otherThanRace

BackendResolves == \E b \in BackendSet, t \in MachineTexts : BackendResolve(b, t)
BackendRejects == \E b \in BackendSet : \E e \in BackendErrors(b) : BackendReject(b, e)
BackendAborts == \E b \in BackendSet : BackendAborted(b)

NextRace ==
  \/ FreeTranslateCall
  \/ BackendResolves
  \/ BackendRejects
  \/ BackendAborts
  \/ RaceWrapper
  \/ FreeTranslateSettle

\* ------------------------------------------------------------------------
\* BaseLLMProvider.fetchWithRetry
\* ------------------------------------------------------------------------

\* the default of the retries parameter; no caller passes another value
RETRIES == 3

\* what one fetch can end in: a response with a status, or a network error
VendorAnswers ==
  {[kind |-> "response", status |-> st] : st \in {200, 400, 401, 500, 503}}
    \cup {[kind |-> "network", status |-> 0]}

IsOk(a) == a.kind = "response" /\ a.status >= 200 /\ a.status < 300
IsClientError(a) == a.kind = "response" /\ a.status >= 400 /\ a.status < 500

\* the error one failed attempt leaves in lastError
AttemptError(a) ==
  IF a.kind = "network" THEN [message |-> "fetch failed", status |-> 0]
  ELSE IF IsClientError(a) THEN [message |-> "API error", status |-> a.status]
  ELSE [message |-> "HTTP", status |-> a.status]

\* Math.pow(2, i) * 1000
Backoff(i) == (2 ^ i) * 1000

InitRetry ==
  /\ rpc = "idle"
  /\ ri = 0
  /\ lastError = None
  /\ rResult = None
  /\ attempts = <<>>
  /\ waits = <<>>

\* fetchWithRetry is called: the loop starts with i = 0 and the first fetch
RetryCall ==
  /\ rpc = "idle"
  /\ rpc' = "fetch"
  /\ ri' = 0
  /\ lastError' = None
  /\ UNCHANGED <<rResult, attempts, waits>>
  /\ UNCHANGED otherThanRetry

\* RetryFetch whose loop bound is off by one (i <= retries - 1 before the wait)
RetryFetch_WaitAfterLast(a) ==
  /\ rpc = "fetch"
  /\ attempts' = Append(attempts, a)
  /\ IF IsOk(a)
       THEN /\ rpc' = "returned"
            /\ rResult' = a
            /\ UNCHANGED <<ri, lastError, waits>>
       ELSE /\ lastError' = AttemptError(a)
            /\ IF ri <= RETRIES - 1
                 THEN /\ rpc' = "wait"
                      /\ waits' = Append(waits, Backoff(ri))
                      /\ UNCHANGED <<ri, rResult>>
                 ELSE /\ rpc' = "thrown"
                      /\ ri' = ri + 1
                      /\ rResult' = AttemptError(a)
                      /\ UNCHANGED waits
  /\ UNCHANGED otherThanRetry

\* One fetch settles with the vendor's answer a.  An ok response is
\* returned.  The error thrown for a 4xx status is thrown inside the try
\* block, so the catch clause of the same iteration stores it in lastError
\* like any other failure.  After the catch the loop either arms the
\* backoff timer (i < retries - 1) or ends and throws lastError.
RetryFetch(a) ==
  /\ rpc = "fetch"
  /\ attempts' = Append(attempts, a)
  /\ IF IsOk(a)
       THEN /\ rpc' = "returned"
            /\ rResult' = a
            /\ UNCHANGED <<ri, lastError, waits>>
       ELSE /\ lastError' = AttemptError(a)
            /\ IF ri < RETRIES - 1
                 THEN /\ rpc' = "wait"
                      /\ waits' = Append(waits, Backoff(ri))
                      /\ UNCHANGED <<ri, rResult>>
                 ELSE /\ rpc' = "thrown"
                      /\ ri' = ri + 1
                      /\ rResult' = AttemptError(a)
                      /\ UNCHANGED waits
  /\ UNCHANGED otherThanRetry

\* the backoff timer fires: i++ and the next iteration fetches again
RetryTimer ==
  /\ rpc = "wait"
  /\ ri' = ri + 1
  /\ rpc' = "fetch"
  /\ UNCHANGED <<lastError, rResult, attempts, waits>>
  /\ UNCHANGED otherThanRetry

RetryFetches == \E a \in VendorAnswers : RetryFetch(a)

NextRetry ==
  \/ RetryCall
  \/ RetryFetches
  \/ RetryTimer

\* ------------------------------------------------------------------------
\* Provider selection, language detection, cache keys
\* ------------------------------------------------------------------------

\* JavaScript truthiness of an optional string
Truthy(x) == x # None /\ x # ""

\* the providers in their fixed priority order
ProviderOrder ==
  <<"openai", "claude", "deepseek", "gemini", "qwen", "moonshot", "zhipu", "groq">>

\* apiKeys[p], undefined when the property is missing
KeyOf(apiKeys, p) == IF p \in DOMAIN apiKeys THEN apiKeys[p] ELSE None

\* the first provider of the priority order that has a non-empty key
getFirstAvailableProvider(apiKeys) ==
  LET avail == SelectSeq(ProviderOrder, LAMBDA p : Truthy(KeyOf(apiKeys, p)))
  IN IF avail = <<>>
       THEN [found |-> FALSE, provider |-> None, apiKey |-> None]
       ELSE [found |-> TRUE, provider |-> avail[1], apiKey |-> apiKeys[avail[1]]]

\* PROVIDER_CONFIG[p].defaultModel
DefaultModel(p) == <<p, "defaultModel">>

\* the requested provider if its key is present, else the first available
SelectProvider(apiKeys, preferredModel) ==
  IF Truthy(preferredModel) /\ Truthy(KeyOf(apiKeys, preferredModel))
    THEN [found |-> TRUE, provider |-> preferredModel, apiKey |-> apiKeys[preferredModel]]
    ELSE getFirstAvailableProvider(apiKeys)

\* the scripts that occur in a text
Scripts(text) ==
  CASE text = "nihao" -> {"han"}
    [] OTHER -> {}

\* detectLanguage of the translation agent: the first script found decides
detectLanguage(text) ==
  IF "han" \in Scripts(text) THEN "zh"
  ELSE IF "kana" \in Scripts(text) THEN "ja"
  ELSE IF "hangul" \in Scripts(text) THEN "ko"
  ELSE IF "cyrillic" \in Scripts(text) THEN "ru"
  ELSE IF "arabic" \in Scripts(text) THEN "ar"
  ELSE "en"

\* SHA-256 as hex; distinct inputs give distinct digests
hashText(s) == <<"sha256", s>>

\* generateCacheKey that hashes contextType as it was passed
generateCacheKey_RawContext(text, sourceLang, targetLang, contextType) ==
  LET combined == <<text, "|", sourceLang, "|", targetLang, "|", contextType>>
  IN <<"trans", sourceLang, targetLang, hashText(combined)>>

\* `trans:${sourceLang}:${targetLang}:${hash.substring(0, 16)}`
generateCacheKey(text, sourceLang, targetLang, contextType) ==
  LET combined == <<text, "|", sourceLang, "|", targetLang, "|",
                    IF Truthy(contextType) THEN contextType ELSE "general">>
  IN <<"trans", sourceLang, targetLang, hashText(combined)>>

\* what the provider's chat answers with, and String.prototype.trim on it
ChatContents == {" tr1 ", ""}
Trim(c) == IF c = " tr1 " THEN "tr1" ELSE c

\* the errors provider.chat rejects with
ChatErrors == {"HTTP 503"}

\* response.tokensUsed.total of a chat response
ChatTokens == 12

\* ------------------------------------------------------------------------
\* translateWithUserKeys
\* ------------------------------------------------------------------------
NoTrace == [kvRead |-> "none", expired |-> FALSE, chat |-> <<>>, content |-> None,
            kvWrite |-> "none"]

InitTrCall ==
  /\ kvExpired = {}
  /\ mem = <<>>
  /\ tpc = "idle"
  /\ tArgs = None
  /\ tSel = None
  /\ tText = None
  /\ tState = "idle"
  /\ tValue = None
  /\ tTrace = NoTrace

InitTr ==
  /\ kv = <<>>
  /\ InitTrCall

\* the cache key of the call in progress
\* TKey that keeps one entry per requested provider and model
TKey_PerModel ==
  generateCacheKey(tArgs.text \o "|" \o tArgs.model \o "|" \o tArgs.modelId,
                   tArgs.sourceLang, tArgs.targetLang, tArgs.ctx)

TKey == generateCacheKey(tArgs.text, tArgs.sourceLang, tArgs.targetLang, tArgs.ctx)

\* lines 152-185: select the provider and issue provider.chat, or throw
\* 'No API key configured'; args and trace are those of the call
SelectAndChat(args, trace) ==
  LET sel == SelectProvider(args.apiKeys, args.model)
  IN IF sel.found
       THEN /\ tpc' = "chat"
            /\ tSel' = [provider |-> sel.provider, apiKey |-> sel.apiKey,
                        model |-> IF Truthy(args.modelId) THEN args.modelId
                                  ELSE DefaultModel(sel.provider)]
            /\ tTrace' = [trace EXCEPT !.chat = Append(@, [provider |-> sel.provider,
                                                            apiKey |-> sel.apiKey])]
            /\ tState' = "pending"
            /\ UNCHANGED tValue
       ELSE /\ tpc' = "done"
            /\ tState' = "rejected"
            /\ tValue' = [message |-> "No API key configured"]
            /\ tTrace' = trace
            /\ UNCHANGED tSel

\* translateWithUserKeys up to its first suspension
StartTranslate(text, targetLang, apiKeys, opts) ==
  LET sourceLang == IF opts.sourceLang = None THEN detectLanguage(text) ELSE opts.sourceLang
      args == [text |-> text, targetLang |-> targetLang, apiKeys |-> apiKeys,
               sourceLang |-> sourceLang, ctx |-> opts.ctx, model |-> opts.model,
               modelId |-> opts.modelId, useCache |-> opts.useCache]
  IN /\ tArgs' = args
     /\ tText' = None
     /\ UNCHANGED <<kv, kvExpired, mem>>
     /\ IF sourceLang = targetLang
          THEN /\ tpc' = "done"
               /\ tState' = "fulfilled"
               /\ tValue' = [translatedText |-> text, sourceLang |-> sourceLang,
                             targetLang |-> targetLang,
                             model |-> IF Truthy(opts.model) THEN opts.model ELSE "openai",
                             cached |-> FALSE, tokensUsed |-> 0]
               /\ tTrace' = NoTrace
               /\ tSel' = None
          ELSE IF opts.useCache
            THEN /\ tpc' = "cacheRead"
                 /\ tState' = "pending"
                 /\ tTrace' = NoTrace
                 /\ tSel' = None
                 /\ tValue' = None
            ELSE SelectAndChat(args, NoTrace)

\* getCachedTranslation settles: a failing read is caught and gives null
KvRead(ok) ==
  /\ tpc = "cacheRead"
  /\ LET hit == ok /\ TKey \in DOMAIN kv
         trace == [tTrace EXCEPT !.kvRead = IF ~ok THEN "fail"
                                            ELSE IF hit THEN "hit" ELSE "miss",
                                 !.expired = TKey \in kvExpired]
     IN IF hit
          THEN /\ tpc' = "done"
               /\ tState' = "fulfilled"
               /\ tValue' = [translatedText |-> kv[TKey].translatedText,
                             sourceLang |-> tArgs.sourceLang,
                             targetLang |-> tArgs.targetLang,
                             model |-> kv[TKey].model,
                             cached |-> TRUE, tokensUsed |-> 0]
               /\ tTrace' = trace
               /\ kvExpired' = kvExpired \ {TKey}
               /\ UNCHANGED tSel
          ELSE /\ SelectAndChat(tArgs, trace)
               /\ UNCHANGED kvExpired
  /\ UNCHANGED <<kv, mem, tArgs, tText>>
  /\ UNCHANGED otherThanTr

\* provider.chat fulfils with a response
ChatOk(content) ==
  /\ tpc = "chat"
  /\ tText' = Trim(content)
  /\ tTrace' = [tTrace EXCEPT !.content = content]
  /\ IF tArgs.useCache /\ Trim(content) # ""
       THEN /\ tpc' = "cacheWrite"
            /\ UNCHANGED <<tState, tValue>>
       ELSE /\ tpc' = "done"
            /\ tState' = "fulfilled"
            /\ tValue' = [translatedText |-> Trim(content), sourceLang |-> tArgs.sourceLang,
                          targetLang |-> tArgs.targetLang, model |-> tSel.provider,
                          cached |-> FALSE, tokensUsed |-> ChatTokens]
  /\ UNCHANGED <<kv, kvExpired, mem, tArgs, tSel>>
  /\ UNCHANGED otherThanTr

\* provider.chat rejects: the error propagates out of translateWithUserKeys
ChatFail(e) ==
  /\ tpc = "chat"
  /\ tpc' = "done"
  /\ tState' = "rejected"
  /\ tValue' = [message |-> e]
  /\ UNCHANGED <<kv, kvExpired, mem, tArgs, tSel, tText, tTrace>>
  /\ UNCHANGED otherThanTr

\* KvWrite that builds its key with the two languages swapped
KvWrite_WrongKey(ok) ==
  /\ tpc = "cacheWrite"
  /\ tpc' = "done"
  /\ tState' = "fulfilled"
  /\ tValue' = [translatedText |-> tText, sourceLang |-> tArgs.sourceLang,
                targetLang |-> tArgs.targetLang, model |-> tSel.provider,
                cached |-> FALSE, tokensUsed |-> ChatTokens]
  /\ tTrace' = [tTrace EXCEPT !.kvWrite = IF ok THEN "ok" ELSE "fail"]
  /\ LET key == generateCacheKey(tArgs.text, tArgs.targetLang, tArgs.sourceLang, tArgs.ctx)
     IN IF ok
          THEN /\ kv' = [k \in DOMAIN kv \cup {key} |->
                           IF k = key
                             THEN [translatedText |-> tText, sourceLang |-> tArgs.sourceLang,
                                   targetLang |-> tArgs.targetLang, model |-> tSel.provider]
                             ELSE kv[k]]
               /\ kvExpired' = kvExpired \ {TKey}
          ELSE UNCHANGED <<kv, kvExpired>>
  /\ UNCHANGED <<mem, tArgs, tSel, tText>>
  /\ UNCHANGED otherThanTr

\* setCachedTranslation settles: a failing write is caught and logged
KvWrite(ok) ==
  /\ tpc = "cacheWrite"
  /\ tpc' = "done"
  /\ tState' = "fulfilled"
  /\ tValue' = [translatedText |-> tText, sourceLang |-> tArgs.sourceLang,
                targetLang |-> tArgs.targetLang, model |-> tSel.provider,
                cached |-> FALSE, tokensUsed |-> ChatTokens]
  /\ tTrace' = [tTrace EXCEPT !.kvWrite = IF ok THEN "ok" ELSE "fail"]
  /\ IF ok
       THEN /\ kv' = [k \in DOMAIN kv \cup {TKey} |->
                        IF k = TKey
                          THEN [translatedText |-> tText, sourceLang |-> tArgs.sourceLang,
                                targetLang |-> tArgs.targetLang, model |-> tSel.provider]
                          ELSE kv[k]]
            /\ kvExpired' = kvExpired \ {TKey}
       ELSE UNCHANGED <<kv, kvExpired>>
  /\ UNCHANGED <<mem, tArgs, tSel, tText>>
  /\ UNCHANGED otherThanTr

\* a cache entry reaches its expirationTtl
KvExpire(k) ==
  /\ k \in DOMAIN kv
  /\ kv' = [x \in DOMAIN kv \ {k} |-> kv[x]]
  /\ kvExpired' = kvExpired \cup {k}
  /\ UNCHANGED <<mem, tpc, tArgs, tSel, tText, tState, tValue, tTrace>>
  /\ UNCHANGED otherThanTr

KvReads == \E ok \in BOOLEAN : KvRead(ok)
ChatOks == \E c \in ChatContents : ChatOk(c)
ChatFails == \E e \in ChatErrors : ChatFail(e)
KvWrites == \E ok \in BOOLEAN : KvWrite(ok)
KvExpires == \E k \in DOMAIN kv : KvExpire(k)

\* ------------------------------------------------------------------------
\* saveToMemory and POST /api/translate
\* ------------------------------------------------------------------------

\* the key of the UNIQUE constraint of translation_memory
MemKey(sourceText, sourceLang, targetLang) == <<hashText(sourceText), sourceLang, targetLang>>

\* MemUpsert as INSERT OR REPLACE: the row is replaced and use_count starts
\* again at its default
MemUpsert_Replace(m, sourceText, targetText, sourceLang, targetLang, model, contextType, now) ==
  LET key == MemKey(sourceText, sourceLang, targetLang)
  IN [k \in DOMAIN m \cup {key} |->
        IF k # key THEN m[k]
        ELSE [source_text |-> sourceText, target_text |-> targetText,
              context_type |-> IF Truthy(contextType) THEN contextType ELSE "general",
              model_used |-> model, use_count |-> 1, updated_at |-> now]]

\* the upsert of saveToMemory on the table; now stands for CURRENT_TIMESTAMP
MemUpsert(m, sourceText, targetText, sourceLang, targetLang, model, contextType, now) ==
  LET key == MemKey(sourceText, sourceLang, targetLang)
  IN [k \in DOMAIN m \cup {key} |->
        IF k # key THEN m[k]
        ELSE IF key \in DOMAIN m
          THEN [m[key] EXCEPT !.target_text = targetText, !.use_count = @ + 1,
                              !.updated_at = now]
          ELSE [source_text |-> sourceText, target_text |-> targetText,
                context_type |-> IF Truthy(contextType) THEN contextType ELSE "general",
                model_used |-> model, use_count |-> 1, updated_at |-> now]]

InitRoute ==
  /\ hpc = "idle"
  /\ hBody = None
  /\ hResp = None
  /\ hMemWrite = "none"
  /\ prev = <<>>
  /\ calls = 0

\* what is remembered of a finished request
Summary ==
  [body |-> hBody, status |-> hResp.status, data |-> hResp.data, trace |-> tTrace,
   memWrite |-> hMemWrite]

\* POST /api/translate up to its first suspension: validation, then the
\* call of translateWithUserKeys
PostTranslate(body) ==
  /\ hpc \in {"idle", "responded"}
  /\ calls < MaxCalls
  /\ calls' = calls + 1
  /\ prev' = IF hpc = "responded" THEN <<Summary>> ELSE <<>>
  /\ hBody' = body
  /\ hMemWrite' = "none"
  /\ IF ~Truthy(body.text) \/ ~Truthy(body.targetLang)
       THEN /\ hpc' = "responded"
            /\ hResp' = [status |-> 400, data |-> None,
                         error |-> "Missing required fields: text and targetLang"]
            /\ tpc' = "idle" /\ tState' = "idle" /\ tTrace' = NoTrace
            /\ UNCHANGED <<kv, kvExpired, mem, tArgs, tSel, tText, tValue>>
       ELSE IF ~body.hasApiKeys \/ ~getFirstAvailableProvider(body.apiKeys).found
         THEN /\ hpc' = "responded"
              /\ hResp' = [status |-> 400, data |-> None,
                           error |-> "No API key configured. Please add an API key in settings."]
              /\ tpc' = "idle" /\ tState' = "idle" /\ tTrace' = NoTrace
              /\ UNCHANGED <<kv, kvExpired, mem, tArgs, tSel, tText, tValue>>
         ELSE /\ hpc' = "translating"
              /\ hResp' = None
              /\ StartTranslate(body.text, body.targetLang, body.apiKeys,
                                [sourceLang |-> body.sourceLang, ctx |-> body.ctx,
                                 model |-> body.model, modelId |-> body.modelId,
                                 useCache |-> body.useCache])
  /\ UNCHANGED otherThanTrRoute

\* the handler resumes after await translateWithUserKeys(...): an error is
\* answered with 500; else saveToMemory is called when useMemory is on and
\* the result is not from the cache; else the result is answered
AfterTranslate ==
  /\ hpc = "translating"
  /\ tState \in {"fulfilled", "rejected"}
  /\ IF tState = "rejected"
       THEN /\ hpc' = "responded"
            /\ hResp' = [status |-> 500, data |-> None, error |-> tValue.message]
       ELSE IF hBody.useMemory /\ ~tValue.cached
         THEN /\ hpc' = "saving"
              /\ UNCHANGED hResp
         ELSE /\ hpc' = "responded"
              /\ hResp' = [status |-> 200, data |-> tValue, error |-> None]
  /\ UNCHANGED <<hBody, hMemWrite, prev, calls>>
  /\ UNCHANGED trVars
  /\ UNCHANGED otherThanTrRoute

\* MemWrite without the try/catch of saveToMemory: the error reaches the
\* handler's catch clause
MemWrite_Throws(ok) ==
  /\ hpc = "saving"
  /\ hpc' = "responded"
  /\ hMemWrite' = IF ok THEN "ok" ELSE "fail"
  /\ mem' = IF ok
              THEN MemUpsert(mem, hBody.text, tValue.translatedText, tValue.sourceLang,
                             tValue.targetLang, tValue.model, hBody.ctx, calls)
              ELSE mem
  /\ hResp' = IF ok THEN [status |-> 200, data |-> tValue, error |-> None]
              ELSE [status |-> 500, data |-> None, error |-> "D1_ERROR"]
  /\ UNCHANGED <<hBody, prev, calls>>
  /\ UNCHANGED <<kv, kvExpired, tpc, tArgs, tSel, tText, tState, tValue, tTrace>>
  /\ UNCHANGED otherThanTrRoute

\* saveToMemory settles: a failing statement is caught and logged; then
\* the handler answers
MemWrite(ok) ==
  /\ hpc = "saving"
  /\ hpc' = "responded"
  /\ hMemWrite' = IF ok THEN "ok" ELSE "fail"
  /\ mem' = IF ok
              THEN MemUpsert(mem, hBody.text, tValue.translatedText, tValue.sourceLang,
                             tValue.targetLang, tValue.model, hBody.ctx, calls)
              ELSE mem
  /\ hResp' = [status |-> 200, data |-> tValue, error |-> None]
  /\ UNCHANGED <<hBody, prev, calls>>
  /\ UNCHANGED <<kv, kvExpired, tpc, tArgs, tSel, tText, tState, tValue, tTrace>>
  /\ UNCHANGED otherThanTrRoute

MemWrites == \E ok \in BOOLEAN : MemWrite(ok)

\* the request bodies of POST /api/translate that are tried
TranslateBodies ==
  {[text |-> tx, targetLang |-> tl, sourceLang |-> sl, ctx |-> cx, model |-> None,
    modelId |-> None, hasApiKeys |-> TRUE, apiKeys |-> [openai |-> "k1"],
    useCache |-> uc, useMemory |-> um] :
      tx \in {"hello"}, tl \in {"zh", "en"}, sl \in {None, "en"},
      cx \in {None, "general", "technical"}, uc \in BOOLEAN, um \in BOOLEAN}

PostTranslates == \E body \in TranslateBodies : PostTranslate(body)

NextTranslate ==
  \/ PostTranslates
  \/ KvReads
  \/ ChatOks
  \/ ChatFails
  \/ KvWrites
  \/ KvExpires
  \/ AfterTranslate
  \/ MemWrites

\* ------------------------------------------------------------------------
\* POST /api/translate/dual
\* ------------------------------------------------------------------------
InitDualVars ==
  /\ dpc = "idle"
  /\ dBody = None
  /\ hasLLMConfig = FALSE
  /\ machineResult = <<>>
  /\ llmResult = <<>>
  /\ dOrder = <<>>
  /\ dResp = None

\* the value of Promise.resolve(null)
NullResult == [isNull |-> TRUE, hasError |-> FALSE, error |-> None,
               translatedText |-> None, model |-> None]

\* DualResponse that derives llm.available from the outcome of the call
DualResponse_AvailableFromResult(mr, lr, llmConfigured, body) ==
  [machine |-> [translatedText |-> IF mr.hasError THEN None ELSE mr.translatedText,
                provider |-> IF mr.hasError THEN None ELSE mr.provider,
                error |-> IF mr.hasError THEN <<mr.error>> ELSE <<>>],
   llm |-> [translatedText |-> IF ~lr.isNull /\ ~lr.hasError THEN lr.translatedText ELSE None,
            model |-> IF ~lr.isNull /\ ~lr.hasError THEN lr.model ELSE None,
            error |-> IF ~lr.isNull /\ lr.hasError THEN <<lr.error>> ELSE <<>>,
            available |-> ~lr.isNull /\ ~lr.hasError],
   sourceLang |-> IF ~mr.hasError /\ Truthy(mr.detectedSourceLang) THEN mr.detectedSourceLang
                  ELSE IF Truthy(body.sourceLang) THEN body.sourceLang
                  ELSE "auto",
   targetLang |-> body.targetLang]

\* the DualResult built from the two settled halves (lines 356-373)
\* DualResponse that reports the LLM half that was not run as failed
DualResponse_NullReportedAsError(mr, lr, llmConfigured, body) ==
  [machine |-> [translatedText |-> IF mr.hasError THEN None ELSE mr.translatedText,
                provider |-> IF mr.hasError THEN None ELSE mr.provider,
                error |-> IF mr.hasError THEN <<mr.error>> ELSE <<>>],
   llm |-> [translatedText |-> IF ~lr.isNull /\ ~lr.hasError THEN lr.translatedText ELSE None,
            model |-> IF ~lr.isNull /\ ~lr.hasError THEN lr.model ELSE None,
            error |-> IF lr.isNull THEN <<"No API key configured">>
                      ELSE IF lr.hasError THEN <<lr.error>> ELSE <<>>,
            available |-> llmConfigured],
   sourceLang |-> IF ~mr.hasError /\ Truthy(mr.detectedSourceLang) THEN mr.detectedSourceLang
                  ELSE IF Truthy(body.sourceLang) THEN body.sourceLang
                  ELSE "auto",
   targetLang |-> body.targetLang]

DualResponse(mr, lr, llmConfigured, body) ==
  [machine |-> [translatedText |-> IF mr.hasError THEN None ELSE mr.translatedText,
                provider |-> IF mr.hasError THEN None ELSE mr.provider,
                error |-> IF mr.hasError THEN <<mr.error>> ELSE <<>>],
   llm |-> [translatedText |-> IF ~lr.isNull /\ ~lr.hasError THEN lr.translatedText ELSE None,
            model |-> IF ~lr.isNull /\ ~lr.hasError THEN lr.model ELSE None,
            error |-> IF ~lr.isNull /\ lr.hasError THEN <<lr.error>> ELSE <<>>,
            available |-> llmConfigured],
   sourceLang |-> IF ~mr.hasError /\ Truthy(mr.detectedSourceLang) THEN mr.detectedSourceLang
                  ELSE IF Truthy(body.sourceLang) THEN body.sourceLang
                  ELSE "auto",
   targetLang |-> body.targetLang]

\* the handler up to await Promise.all: validation, hasLLMConfig, then
\* freeTranslate and (if configured) translateWithUserKeys are both called
DualRequest(body) ==
  /\ dpc = "idle"
  /\ dBody' = body
  /\ dOrder' = <<>>
  /\ machineResult' = <<>>
  /\ IF ~Truthy(body.text) \/ ~Truthy(body.targetLang)
       THEN /\ dpc' = "responded"
            /\ dResp' = [status |-> 400, data |-> None,
                         error |-> "Missing required fields: text and targetLang"]
            /\ UNCHANGED <<hasLLMConfig, llmResult>>
            /\ UNCHANGED <<raceVars, trVars>>
       ELSE LET configured == body.hasApiKeys /\ getFirstAvailableProvider(body.apiKeys).found
            IN /\ dpc' = "running"
               /\ dResp' = None
               /\ hasLLMConfig' = configured
               /\ StartFreeTranslate(body.text,
                                     IF Truthy(body.sourceLang) THEN body.sourceLang ELSE "auto",
                                     body.targetLang)
               /\ IF configured
                    THEN /\ StartTranslate(body.text, body.targetLang, body.apiKeys,
                                           [sourceLang |-> body.sourceLang, ctx |-> body.ctx,
                                            model |-> body.model, modelId |-> body.modelId,
                                            useCache |-> TRUE])
                         /\ llmResult' = <<>>
                    ELSE /\ llmResult' = <<NullResult>>
                         /\ UNCHANGED trVars
  /\ UNCHANGED <<retryVars, routeVars, restVars>>

\* machineTranslatePromise settles: the result, or the caught error
MachineSettled ==
  /\ dpc = "running"
  /\ machineResult = <<>>
  /\ ftState \in {"fulfilled", "rejected"}
  /\ machineResult' =
       IF ftState = "fulfilled"
         THEN <<[hasError |-> FALSE, error |-> <<>>, translatedText |-> ftValue.translatedText,
                 provider |-> ftValue.provider,
                 detectedSourceLang |-> ftValue.detectedSourceLang]>>
         ELSE <<[hasError |-> TRUE, error |-> ftValue.message, translatedText |-> None,
                 provider |-> None, detectedSourceLang |-> None]>>
  /\ dOrder' = Append(dOrder, "machine")
  /\ UNCHANGED <<dpc, dBody, hasLLMConfig, llmResult, dResp>>
  /\ UNCHANGED <<raceVars, retryVars, trVars, routeVars, restVars>>

\* LlmSettled without the .catch on translateWithUserKeys: the rejection
\* makes Promise.all reject and the handler's catch clause answers 500
LlmSettled_NoCatch ==
  /\ dpc = "running"
  /\ llmResult = <<>>
  /\ tState \in {"fulfilled", "rejected"}
  /\ IF tState = "fulfilled"
       THEN /\ llmResult' = <<[isNull |-> FALSE, hasError |-> FALSE, error |-> None,
                               translatedText |-> tValue.translatedText,
                               model |-> tValue.model]>>
            /\ dOrder' = Append(dOrder, "llm")
            /\ UNCHANGED <<dpc, dResp>>
       ELSE /\ dpc' = "responded"
            /\ dResp' = [status |-> 500, data |-> None, error |-> tValue.message]
            /\ UNCHANGED <<llmResult, dOrder>>
  /\ UNCHANGED <<dBody, hasLLMConfig, machineResult>>
  /\ UNCHANGED <<raceVars, retryVars, trVars, routeVars, restVars>>

\* llmTranslatePromise settles: the result, or the caught error
LlmSettled ==
  /\ dpc = "running"
  /\ llmResult = <<>>
  /\ tState \in {"fulfilled", "rejected"}
  /\ llmResult' =
       IF tState = "fulfilled"
         THEN <<[isNull |-> FALSE, hasError |-> FALSE, error |-> None,
                 translatedText |-> tValue.translatedText, model |-> tValue.model]>>
         ELSE <<[isNull |-> FALSE, hasError |-> TRUE, error |-> tValue.message,
                 translatedText |-> None, model |-> None]>>
  /\ dOrder' = Append(dOrder, "llm")
  /\ UNCHANGED <<dpc, dBody, hasLLMConfig, machineResult, dResp>>
  /\ UNCHANGED <<raceVars, retryVars, trVars, routeVars, restVars>>

\* DualAssemble that resumes when the first of the two halves has settled
\* (Promise.race in place of Promise.all)
DualAssemble_FirstSettled ==
  /\ dpc = "running"
  /\ machineResult # <<>> \/ llmResult # <<>>
  /\ dpc' = "responded"
  /\ LET mr == IF machineResult # <<>> THEN machineResult[1]
               ELSE [hasError |-> FALSE, error |-> <<>>, translatedText |-> None,
                     provider |-> None, detectedSourceLang |-> None]
         lr == IF llmResult # <<>> THEN llmResult[1] ELSE NullResult
     IN dResp' = [status |-> 200, data |-> DualResponse(mr, lr, hasLLMConfig, dBody),
                  error |-> None]
  /\ UNCHANGED <<dBody, hasLLMConfig, machineResult, llmResult, dOrder>>
  /\ UNCHANGED <<raceVars, retryVars, trVars, routeVars, restVars>>

\* the handler resumes after await Promise.all([...]) and answers
DualAssemble ==
  /\ dpc = "running"
  /\ machineResult # <<>>
  /\ llmResult # <<>>
  /\ dpc' = "responded"
  /\ dResp' = [status |-> 200,
               data |-> DualResponse(machineResult[1], llmResult[1], hasLLMConfig, dBody),
               error |-> None]
  /\ UNCHANGED <<dBody, hasLLMConfig, machineResult, llmResult, dOrder>>
  /\ UNCHANGED <<raceVars, retryVars, trVars, routeVars, restVars>>

\* the apiKeys objects that are tried: absent, empty, only empty strings,
\* one key, an empty and a non-empty key
ApiKeyChoices ==
  {[hasApiKeys |-> FALSE, apiKeys |-> <<>>],
   [hasApiKeys |-> TRUE, apiKeys |-> <<>>],
   [hasApiKeys |-> TRUE, apiKeys |-> [openai |-> ""]],
   [hasApiKeys |-> TRUE, apiKeys |-> [openai |-> "k1"]],
   [hasApiKeys |-> TRUE, apiKeys |-> [openai |-> "", claude |-> "k2"]]}

\* the request bodies of POST /api/translate/dual that are tried
DualBodies ==
  {[text |-> tx, targetLang |-> tl, sourceLang |-> sl, ctx |-> None, model |-> None,
    modelId |-> None, hasApiKeys |-> ak.hasApiKeys, apiKeys |-> ak.apiKeys] :
      tx \in {"hello", ""}, tl \in {"zh"}, sl \in {None, "EN-us"}, ak \in ApiKeyChoices}

DualRequests == \E body \in DualBodies : DualRequest(body)

NextDual ==
  \/ DualRequests
  \/ BackendResolves
  \/ BackendRejects
  \/ BackendAborts
  \/ RaceWrapper
  \/ FreeTranslateSettle
  \/ KvReads
  \/ ChatOks
  \/ ChatFails
  \/ KvWrites
  \/ KvExpires
  \/ MachineSettled
  \/ LlmSettled
  \/ DualAssemble

\* the cache as a dual request may find it: empty, or holding the fragment
InitDualCache ==
  kv \in {<<>>,
          (generateCacheKey("hello", "en", "zh", None)
             :> [translatedText |-> "tr0", sourceLang |-> "en", targetLang |-> "zh",
                 model |-> "openai"])}

\* ------------------------------------------------------------------------
\* translateBatch
\* ------------------------------------------------------------------------
BATCH_SIZE == 20

\* the fragments of a batch request and their lengths in characters
BatchTexts == {"a", "b", "long"}
TextLen(t) == CASE t = "a" -> 1 [] t = "b" -> 1 [] t = "long" -> 2000 [] OTHER -> 0

\* n times the same fragment
Rep(n, t) == [i \in 1..n |-> t]

\* the text written after marker [k] by a provider that answers as asked
MarkerText(k) == IF k = 1 THEN "T1 " ELSE IF k = 2 THEN "T2" ELSE IF k = 3 THEN "T3" ELSE "Tn"

\* String.prototype.trim on the texts of a response
BTrim(t) == CASE t = "T1 " -> "T1" [] t = " " -> "" [] OTHER -> t

\* a response is the sequence of its pieces: the text before the first
\* marker (k = 0) and, for each marker [k], the text that follows it
WellFormed(n) == [k \in 1..n |-> [k |-> k, text |-> MarkerText(k)]]

\* the responses of provider.chat to a numbered prompt of n fragments:
\* as asked; with an introduction; without [1]; markers in reverse order;
\* nothing after [1]; empty
ResponsesFor(n) ==
  {WellFormed(n),
   <<[k |-> 0, text |-> "Sure:"]>> \o WellFormed(n),
   Tail(WellFormed(n)),
   [i \in 1..n |-> WellFormed(n)[n + 1 - i]],
   [i \in 1..n |-> IF i = 1 THEN [k |-> 1, text |-> ""] ELSE WellFormed(n)[i]],
   <<>>}

\* response.content.split(/\n*\[\d+\]\s*/).filter(Boolean): the texts
\* between the markers, the empty ones dropped
RECURSIVE SplitParts(_)
SplitParts(resp) ==
  IF resp = <<>> THEN <<>>
  ELSE IF Head(resp).text = "" THEN SplitParts(Tail(resp))
  ELSE <<Head(resp).text>> \o SplitParts(Tail(resp))

\* translatedParts[i]?.trim() || originalText
Translated(parts, i, originalText) ==
  IF i <= Len(parts) /\ BTrim(parts[i]) # "" THEN BTrim(parts[i]) ELSE originalText

\* batch.forEach(... newTranslations.set(originalText, translated)) from
\* index i on
RECURSIVE SetAll(_, _, _, _)
SetAll(new, batch, parts, i) ==
  IF i > Len(batch) THEN new
  ELSE SetAll([t \in DOMAIN new \cup {batch[i]} |->
                 IF t = batch[i] THEN Translated(parts, i, batch[i]) ELSE new[t]],
              batch, parts, i + 1)

\* the slices of BATCH_SIZE fragments of textsToTranslate (lines 272-274)
RECURSIVE Slices(_)
Slices(todo) ==
  IF todo = <<>> THEN <<>>
  ELSE IF Len(todo) <= BATCH_SIZE THEN <<todo>>
  ELSE <<SubSeq(todo, 1, BATCH_SIZE)>> \o Slices(SubSeq(todo, BATCH_SIZE + 1, Len(todo)))

\* texts.find((t) => t.trim().length > 0) || ''
RECURSIVE FirstNonBlank(_)
FirstNonBlank(texts) ==
  IF texts = <<>> THEN ""
  ELSE IF BTrim(Head(texts)) # "" THEN Head(texts)
  ELSE FirstNonBlank(Tail(texts))

\* the result of lines 314-328
BatchResult(args, cached, new, sel, tokens) ==
  [translations |-> [i \in 1..Len(args.texts) |->
                       LET t == args.texts[i]
                       IN IF t \in DOMAIN cached THEN cached[t]
                          ELSE IF t \in DOMAIN new /\ new[t] # "" THEN new[t]
                          ELSE t],
   sourceLang |-> args.sourceLang, targetLang |-> args.targetLang,
   model |-> sel.provider, cachedCount |-> Cardinality(DOMAIN cached),
   tokensUsed |-> tokens]

InitBatch ==
  /\ bpc = "idle"
  /\ bArgs = None
  /\ bCached = <<>>
  /\ bSel = None
  /\ bBatches = <<>>
  /\ bIdx = 0
  /\ bNew = <<>>
  /\ bTokens = 0
  /\ bState = "idle"
  /\ bValue = None
  /\ bTrace = <<>>
  /\ kvQueue = {}

\* the cache key of a fragment of the call in progress
BKey(args, t) == generateCacheKey(t, args.sourceLang, args.targetLang, args.ctx)

\* BatchSelect that sends every fragment, cached or not
BatchSelect_SendsAll(args, cached) ==
  LET todo == args.texts
      sel == SelectProvider(args.apiKeys, args.model)
  IN /\ bCached' = cached
     /\ bNew' = <<>>
     /\ bTokens' = 0
     /\ IF ~sel.found
          THEN /\ bpc' = "done"
               /\ bState' = "rejected"
               /\ bValue' = [message |-> "No API key configured"]
               /\ bSel' = None
               /\ bBatches' = <<>>
               /\ bIdx' = 0
               /\ bTrace' = <<>>
          ELSE /\ bSel' = [provider |-> sel.provider, apiKey |-> sel.apiKey]
               /\ bBatches' = Slices(todo)
               /\ IF todo = <<>>
                    THEN /\ bpc' = "done"
                         /\ bState' = "fulfilled"
                         /\ bValue' = BatchResult(args, cached, <<>>,
                                                  [provider |-> sel.provider], 0)
                         /\ bIdx' = 0
                         /\ bTrace' = <<>>
                    ELSE /\ bpc' = "chat"
                         /\ bState' = "pending"
                         /\ bValue' = None
                         /\ bIdx' = 1
                         /\ bTrace' = <<[provider |-> sel.provider, apiKey |-> sel.apiKey,
                                         batch |-> Slices(todo)[1], response |-> <<>>]>>

\* lines 245-287: textsToTranslate, provider selection, the batches and
\* the first chat call; or the result when nothing is left to translate
BatchSelect(args, cached) ==
  LET todo == SelectSeq(args.texts, LAMBDA t : t \notin DOMAIN cached)
      sel == SelectProvider(args.apiKeys, args.model)
  IN /\ bCached' = cached
     /\ bNew' = <<>>
     /\ bTokens' = 0
     /\ IF ~sel.found
          THEN /\ bpc' = "done"
               /\ bState' = "rejected"
               /\ bValue' = [message |-> "No API key configured"]
               /\ bSel' = None
               /\ bBatches' = <<>>
               /\ bIdx' = 0
               /\ bTrace' = <<>>
          ELSE /\ bSel' = [provider |-> sel.provider, apiKey |-> sel.apiKey]
               /\ bBatches' = Slices(todo)
               /\ IF todo = <<>>
                    THEN /\ bpc' = "done"
                         /\ bState' = "fulfilled"
                         /\ bValue' = BatchResult(args, cached, <<>>,
                                                  [provider |-> sel.provider], 0)
                         /\ bIdx' = 0
                         /\ bTrace' = <<>>
                    ELSE /\ bpc' = "chat"
                         /\ bState' = "pending"
                         /\ bValue' = None
                         /\ bIdx' = 1
                         /\ bTrace' = <<[provider |-> sel.provider, apiKey |-> sel.apiKey,
                                         batch |-> Slices(todo)[1], response |-> <<>>]>>

\* translateBatch up to its first suspension
StartBatch(texts, targetLang, apiKeys, opts) ==
  LET sourceLang == IF Truthy(opts.sourceLang) THEN opts.sourceLang
                    ELSE detectLanguage(FirstNonBlank(texts))
      args == [texts |-> texts, targetLang |-> targetLang, apiKeys |-> apiKeys,
               sourceLang |-> sourceLang, ctx |-> opts.ctx, model |-> opts.model,
               useCache |-> opts.useCache]
  IN /\ bArgs' = args
     /\ UNCHANGED <<kv, kvQueue>>
     /\ IF opts.useCache
          THEN /\ bpc' = "cacheRead"
               /\ bState' = "pending"
               /\ bValue' = None
               /\ bCached' = <<>>
               /\ bNew' = <<>>
               /\ bTokens' = 0
               /\ bSel' = None
               /\ bBatches' = <<>>
               /\ bIdx' = 0
               /\ bTrace' = <<>>
          ELSE BatchSelect(args, <<>>)

\* getBatchCached settles: the fragments found, a failing read counting
\* as not found
BatchCacheRead(failed) ==
  /\ bpc = "cacheRead"
  /\ LET found == {t \in {bArgs.texts[i] : i \in 1..Len(bArgs.texts)} :
                     t \notin failed /\ BKey(bArgs, t) \in DOMAIN kv}
     IN BatchSelect(bArgs, [t \in found |-> kv[BKey(bArgs, t)].translatedText])
  /\ UNCHANGED <<bArgs, kv, kvQueue>>
  /\ UNCHANGED batchRouteVars
  /\ UNCHANGED otherThanBatch

\* the setCachedTranslation calls of one batch (lines 298-309)
CacheWrites(args, sel, batch, parts) ==
  {[key |-> BKey(args, batch[i]),
    value |-> [translatedText |-> Translated(parts, i, batch[i]),
               sourceLang |-> args.sourceLang, targetLang |-> args.targetLang,
               model |-> sel.provider]] : i \in 1..Len(batch)}

\* provider.chat of the current batch fulfils: the response is parsed, the
\* cache writes are started, and the next batch is sent or the result built
BatchChatOk(resp) ==
  /\ bpc = "chat"
  /\ LET batch == bBatches[bIdx]
         parts == SplitParts(resp)
         new == SetAll(bNew, batch, parts, 1)
         trace == [bTrace EXCEPT ![bIdx].response = <<resp>>]
     IN /\ bNew' = new
        /\ bTokens' = bTokens + ChatTokens
        /\ kvQueue' = IF bArgs.useCache
                        THEN kvQueue \cup CacheWrites(bArgs, bSel, batch, parts)
                        ELSE kvQueue
        /\ IF bIdx < Len(bBatches)
             THEN /\ bIdx' = bIdx + 1
                  /\ bTrace' = Append(trace, [provider |-> bSel.provider,
                                              apiKey |-> bSel.apiKey,
                                              batch |-> bBatches[bIdx + 1],
                                              response |-> <<>>])
                  /\ UNCHANGED <<bpc, bState, bValue>>
             ELSE /\ bpc' = "done"
                  /\ bState' = "fulfilled"
                  /\ bValue' = BatchResult(bArgs, bCached, new, bSel, bTokens + ChatTokens)
                  /\ bTrace' = trace
                  /\ UNCHANGED bIdx
  /\ UNCHANGED <<bArgs, bCached, bSel, bBatches, kv>>
  /\ UNCHANGED batchRouteVars
  /\ UNCHANGED otherThanBatch

\* provider.chat rejects: the error propagates out of translateBatch
BatchChatFail(e) ==
  /\ bpc = "chat"
  /\ bpc' = "done"
  /\ bState' = "rejected"
  /\ bValue' = [message |-> e]
  /\ UNCHANGED <<bArgs, bCached, bSel, bBatches, bIdx, bNew, bTokens, bTrace, kvQueue, kv>>
  /\ UNCHANGED batchRouteVars
  /\ UNCHANGED otherThanBatch

\* one of the setCachedTranslation calls that were not awaited settles
BatchKvWrite(w, ok) ==
  /\ w \in kvQueue
  /\ kvQueue' = kvQueue \ {w}
  /\ kv' = IF ok THEN [k \in DOMAIN kv \cup {w.key} |-> IF k = w.key THEN w.value ELSE kv[k]]
           ELSE kv
  /\ UNCHANGED <<bpc, bArgs, bCached, bSel, bBatches, bIdx, bNew, bTokens, bState, bValue,
                 bTrace>>
  /\ UNCHANGED batchRouteVars
  /\ UNCHANGED otherThanBatch

BatchCacheReads == \E failed \in SUBSET {"a"} : BatchCacheRead(failed)
BatchChatOks ==
  /\ bpc = "chat"
  /\ \E resp \in ResponsesFor(Len(bBatches[bIdx])) : BatchChatOk(resp)
BatchChatFails == \E e \in ChatErrors : BatchChatFail(e)
BatchKvWrites == \E w \in kvQueue, ok \in BOOLEAN : BatchKvWrite(w, ok)

\* ------------------------------------------------------------------------
\* POST /api/translate/batch
\* ------------------------------------------------------------------------
MAX_TEXTS == 50

InitBatchRoute ==
  /\ qpc = "idle"
  /\ qBody = None
  /\ qResp = None

\* PostBatch that rejects a batch of exactly MAX_TEXTS texts
PostBatch_FiftyRejected(body) ==
  /\ qpc = "idle"
  /\ bpc = "idle"
  /\ qBody' = body
  /\ IF body.texts.kind # "array" \/ Len(body.texts.items) = 0 \/ ~Truthy(body.targetLang)
       THEN /\ qpc' = "responded"
            /\ qResp' = [status |-> 400, data |-> None,
                         error |-> "Missing required fields: texts (array) and targetLang"]
            /\ UNCHANGED batchVars
            /\ UNCHANGED kv
       ELSE IF Len(body.texts.items) >= MAX_TEXTS
         THEN /\ qpc' = "responded"
              /\ qResp' = [status |-> 400, data |-> None,
                           error |-> "Maximum 50 texts per batch"]
              /\ UNCHANGED batchVars
              /\ UNCHANGED kv
         ELSE IF ~body.hasApiKeys \/ ~getFirstAvailableProvider(body.apiKeys).found
           THEN /\ qpc' = "responded"
                /\ qResp' = [status |-> 400, data |-> None,
                             error |-> "No API key configured. Please add an API key in settings."]
                /\ UNCHANGED batchVars
                /\ UNCHANGED kv
           ELSE /\ qpc' = "translating"
                /\ qResp' = None
                /\ StartBatch(body.texts.items, body.targetLang, body.apiKeys,
                              [sourceLang |-> body.sourceLang, ctx |-> body.ctx,
                               model |-> body.model, useCache |-> TRUE])
  /\ UNCHANGED otherThanBatch

\* the handler up to await translateBatch(...): the three validations,
\* then the call
PostBatch(body) ==
  /\ qpc = "idle"
  /\ bpc = "idle"
  /\ qBody' = body
  /\ IF body.texts.kind # "array" \/ Len(body.texts.items) = 0 \/ ~Truthy(body.targetLang)
       THEN /\ qpc' = "responded"
            /\ qResp' = [status |-> 400, data |-> None,
                         error |-> "Missing required fields: texts (array) and targetLang"]
            /\ UNCHANGED batchVars
            /\ UNCHANGED kv
       ELSE IF Len(body.texts.items) > MAX_TEXTS
         THEN /\ qpc' = "responded"
              /\ qResp' = [status |-> 400, data |-> None,
                           error |-> "Maximum 50 texts per batch"]
              /\ UNCHANGED batchVars
              /\ UNCHANGED kv
         ELSE IF ~body.hasApiKeys \/ ~getFirstAvailableProvider(body.apiKeys).found
           THEN /\ qpc' = "responded"
                /\ qResp' = [status |-> 400, data |-> None,
                             error |-> "No API key configured. Please add an API key in settings."]
                /\ UNCHANGED batchVars
                /\ UNCHANGED kv
           ELSE /\ qpc' = "translating"
                /\ qResp' = None
                /\ StartBatch(body.texts.items, body.targetLang, body.apiKeys,
                              [sourceLang |-> body.sourceLang, ctx |-> body.ctx,
                               model |-> body.model, useCache |-> TRUE])
  /\ UNCHANGED otherThanBatch

\* the handler resumes after await translateBatch(...): the result is
\* answered, an error is answered with 500
AfterBatch ==
  /\ qpc = "translating"
  /\ bState \in {"fulfilled", "rejected"}
  /\ qpc' = "responded"
  /\ qResp' = IF bState = "fulfilled"
                THEN [status |-> 200, data |-> bValue, error |-> None]
                ELSE [status |-> 500, data |-> None, error |-> bValue.message]
  /\ UNCHANGED qBody
  /\ UNCHANGED batchVars
  /\ UNCHANGED kv
  /\ UNCHANGED otherThanBatch

\* the values of body.texts that are tried: missing, a string, and arrays
\* of 0, 1, 2, BATCH_SIZE, BATCH_SIZE + 1, MAX_TEXTS and MAX_TEXTS + 1 texts
BatchTextLists ==
  {<<"a">>, <<"a", "b">>, <<"b", "a">>, <<"a", "a">>, <<"long", "long">>,
   Rep(BATCH_SIZE, "a"), Rep(BATCH_SIZE + 1, "a")}

BatchTextsFields ==
  {[kind |-> "missing", items |-> <<>>], [kind |-> "string", items |-> <<>>],
   [kind |-> "array", items |-> <<>>],
   [kind |-> "array", items |-> Rep(MAX_TEXTS, "b")],
   [kind |-> "array", items |-> Rep(MAX_TEXTS + 1, "b")]}
  \cup {[kind |-> "array", items |-> l] : l \in BatchTextLists}

\* the request bodies of POST /api/translate/batch that are tried
BatchBodies ==
  {[texts |-> tf, targetLang |-> tl, sourceLang |-> None, ctx |-> None, model |-> None,
    hasApiKeys |-> ak.hasApiKeys, apiKeys |-> ak.apiKeys] :
      tf \in BatchTextsFields, tl \in {"zh", None}, ak \in ApiKeyChoices}

PostBatches == \E body \in BatchBodies : PostBatch(body)

NextBatch ==
  \/ PostBatches
  \/ BatchCacheReads
  \/ BatchChatOks
  \/ BatchChatFails
  \/ BatchKvWrites
  \/ AfterBatch

\* the cache as a batch request may find it: empty, or holding fragment a
InitBatchCache ==
  kv \in {<<>>,
          (generateCacheKey("a", "en", "zh", None)
             :> [translatedText |-> "Ta", sourceLang |-> "en", targetLang |-> "zh",
                 model |-> "openai"])}

\* ------------------------------------------------------------------------
\* refineTranslation, and direct calls of the three translation functions
\* ------------------------------------------------------------------------
InitRefine ==
  /\ rfpc = "idle"
  /\ rfReq = None
  /\ rfState = "idle"
  /\ rfValue = None
  /\ rfTrace = <<>>

\* no call of the three functions is in progress or has been made
NoCallYet == tpc = "idle" /\ bpc = "idle" /\ rfpc = "idle"

\* the system prompt, built from the texts and the language names
SystemPrompt(req) ==
  "refine|" \o req.originalText \o "|" \o req.currentTranslation \o "|" \o req.targetLang

\* history.slice(-n)
LastOf(history, n) ==
  IF Len(history) <= n THEN history ELSE SubSeq(history, Len(history) - n + 1, Len(history))

\* RefineMessages that keeps the first 20 messages of the history
RefineMessages_OldestKept(req) ==
  <<[role |-> "system", content |-> SystemPrompt(req)]>>
  \o (IF Len(req.history) <= 20 THEN req.history ELSE SubSeq(req.history, 1, 20))
  \o <<[role |-> "user", content |-> req.instruction]>>

\* the messages of the chat call (lines 382-392)
RefineMessages(req) ==
  <<[role |-> "system", content |-> SystemPrompt(req)]>>
  \o LastOf(req.history, 20)
  \o <<[role |-> "user", content |-> req.instruction]>>

\* RefineCall that sends the first key of the priority order with the
\* requested provider
RefineCall_ForeignKey(req) ==
  /\ NoCallYet
  /\ rfReq' = req
  /\ LET sel == getFirstAvailableProvider(req.apiKeys)
     IN IF sel.found
          THEN /\ rfpc' = "chat"
               /\ rfState' = "pending"
               /\ rfValue' = None
               /\ rfTrace' = Append(rfTrace,
                                     [provider |-> IF Truthy(req.model) THEN req.model
                                                   ELSE sel.provider,
                                      apiKey |-> sel.apiKey,
                                      model |-> IF Truthy(req.modelId) THEN req.modelId
                                                ELSE DefaultModel(sel.provider),
                                      messages |-> RefineMessages(req),
                                      request |-> req])
          ELSE /\ rfpc' = "done"
               /\ rfState' = "rejected"
               /\ rfValue' = [message |->
                                "No API key configured. Please add an API key in settings."]
               /\ rfTrace' = rfTrace
  /\ UNCHANGED otherThanRefine

\* refineTranslation up to await provider.chat: provider selection, then
\* the chat call, or the error when no key is usable
RefineCall(req) ==
  /\ NoCallYet
  /\ rfReq' = req
  /\ LET sel == SelectProvider(req.apiKeys, req.model)
     IN IF sel.found
          THEN /\ rfpc' = "chat"
               /\ rfState' = "pending"
               /\ rfValue' = None
               /\ rfTrace' = Append(rfTrace,
                                     [provider |-> sel.provider, apiKey |-> sel.apiKey,
                                      model |-> IF Truthy(req.modelId) THEN req.modelId
                                                ELSE DefaultModel(sel.provider),
                                      messages |-> RefineMessages(req),
                                      request |-> req])
          ELSE /\ rfpc' = "done"
               /\ rfState' = "rejected"
               /\ rfValue' = [message |->
                                "No API key configured. Please add an API key in settings."]
               /\ rfTrace' = rfTrace
  /\ UNCHANGED otherThanRefine

\* provider.chat fulfils: the trimmed content is the refined text
RefineChatOk(content) ==
  /\ rfpc = "chat"
  /\ rfpc' = "done"
  /\ rfState' = "fulfilled"
  /\ rfValue' = [refinedText |-> Trim(content), model |-> rfTrace[Len(rfTrace)].model]
  /\ UNCHANGED <<rfReq, rfTrace>>
  /\ UNCHANGED otherThanRefine

\* provider.chat rejects: the error propagates
RefineChatFail(e) ==
  /\ rfpc = "chat"
  /\ rfpc' = "done"
  /\ rfState' = "rejected"
  /\ rfValue' = [message |-> e]
  /\ UNCHANGED <<rfReq, rfTrace>>
  /\ UNCHANGED otherThanRefine

\* the apiKeys objects and requested providers that are tried
SelectKeyChoices ==
  {<<>>, [openai |-> ""], [openai |-> "k1"], [openai |-> "", claude |-> "k2"],
   [openai |-> "k1", claude |-> "k2"], [gemini |-> "k4", groq |-> "k8"]}
SelectModelChoices == {None, "openai", "claude", "groq"}

\* a direct call of translateWithUserKeys
TranslateCall(apiKeys, model, modelId, useCache) ==
  /\ NoCallYet
  /\ StartTranslate("hello", "zh", apiKeys,
                    [sourceLang |-> None, ctx |-> None, model |-> model, modelId |-> modelId,
                     useCache |-> useCache])
  /\ UNCHANGED otherThanTr

\* a direct call of translateBatch
BatchCall(apiKeys, model, useCache) ==
  /\ NoCallYet
  /\ StartBatch(<<"a", "b">>, "zh", apiKeys,
                [sourceLang |-> None, ctx |-> None, model |-> model, useCache |-> useCache])
  /\ UNCHANGED batchRouteVars
  /\ UNCHANGED otherThanBatch

TranslateCalls ==
  \E ak \in SelectKeyChoices, m \in SelectModelChoices, id \in {None, "claude-3-haiku"},
     uc \in BOOLEAN : TranslateCall(ak, m, id, uc)
BatchCalls ==
  \E ak \in SelectKeyChoices, m \in SelectModelChoices, uc \in BOOLEAN : BatchCall(ak, m, uc)
RefineCalls ==
  \E ak \in SelectKeyChoices, m \in SelectModelChoices :
     RefineCall([originalText |-> "hello", currentTranslation |-> "tr1",
                 instruction |-> "shorter", history |-> <<>>, targetLang |-> "zh",
                 sourceLang |-> None, apiKeys |-> ak, model |-> m, modelId |-> None])
RefineChatOks == \E c \in ChatContents : RefineChatOk(c)
RefineChatFails == \E e \in ChatErrors : RefineChatFail(e)

\* ------------------------------------------------------------------------
\* Repeated calls of refineTranslation with a conversation history
\* ------------------------------------------------------------------------
MaxRefines == 2

\* a caller-supplied history of n messages; the roles alternate, starting
\* with first
HistoryOf(n, first) ==
  [i \in 1..n |->
     [role |-> IF (i % 2 = 1) = (first = "user") THEN "user" ELSE "assistant",
      content |-> "h" \o ToString(i)]]

\* the histories that are tried
Histories ==
  {HistoryOf(n, "user") : n \in {0, 1, 19, 20, 21, 22, 41}}
  \cup {HistoryOf(n, "assistant") : n \in {2, 21}}

\* the caller has received the result of the call; the next call can start
RefineReturn ==
  /\ rfpc = "done"
  /\ Len(rfTrace) < MaxRefines
  /\ rfpc' = "idle"
  /\ rfState' = "idle"
  /\ rfValue' = None
  /\ UNCHANGED <<rfReq, rfTrace>>
  /\ UNCHANGED otherThanRefine

RefineHistCalls ==
  \E h \in Histories, ak \in {<<>>, [openai |-> "k1"]}, ins \in {"shorter", "formal"} :
     RefineCall([originalText |-> "hello", currentTranslation |-> "tr1",
                 instruction |-> ins, history |-> h, targetLang |-> "zh",
                 sourceLang |-> None, apiKeys |-> ak, model |-> None, modelId |-> None])

NextRefine ==
  \/ RefineHistCalls
  \/ RefineChatOks
  \/ RefineChatFails
  \/ RefineReturn

NextSelect ==
  \/ TranslateCalls
  \/ KvReads
  \/ ChatOks
  \/ ChatFails
  \/ KvWrites
  \/ BatchCalls
  \/ BatchCacheReads
  \/ BatchChatOks
  \/ BatchChatFails
  \/ BatchKvWrites
  \/ RefineCalls
  \/ RefineChatOks
  \/ RefineChatFails

\* ------------------------------------------------------------------------
\* One request to POST /api/translate or to POST /api/translate/batch,
\* valid or not
\* ------------------------------------------------------------------------

\* the request bodies of POST /api/translate with fields missing or empty
ValidationBodies ==
  {[text |-> tx, targetLang |-> tl, sourceLang |-> None, ctx |-> None, model |-> None,
    modelId |-> None, hasApiKeys |-> ak.hasApiKeys, apiKeys |-> ak.apiKeys,
    useCache |-> TRUE, useMemory |-> TRUE] :
      tx \in {"hello", "", None}, tl \in {"zh", "", None}, ak \in ApiKeyChoices}

\* no request has been made to either route
NoRequestYet == hpc = "idle" /\ qpc = "idle"

ValidateTranslates == NoRequestYet /\ \E body \in ValidationBodies : PostTranslate(body)
ValidateBatches == NoRequestYet /\ PostBatches

NextValidate ==
  \/ ValidateTranslates
  \/ KvReads
  \/ ChatOks
  \/ ChatFails
  \/ KvWrites
  \/ AfterTranslate
  \/ MemWrites
  \/ ValidateBatches
  \/ BatchCacheReads
  \/ BatchChatOks
  \/ BatchChatFails
  \/ BatchKvWrites
  \/ AfterBatch

\* ------------------------------------------------------------------------
\* The batch splitter of startWebTranslation (extension)
\* ------------------------------------------------------------------------
MAX_TEXT_LENGTH == 2500

MAX_BATCH_SIZE == 50

\* item.text.length of the items that are tried
ItemLens == {1, 1250, 2500, 2501}

\* a list of items from the list of their lengths
Items(lens) == [i \in 1..Len(lens) |-> [id |-> i, len |-> lens[i]]]

\* the lists that are tried: every list of up to three items, lists of
\* MAX_BATCH_SIZE, MAX_BATCH_SIZE + 1 and 2 * MAX_BATCH_SIZE + 1 one-character
\* items, lists whose items fill MAX_TEXT_LENGTH exactly at MAX_BATCH_SIZE
\* items, and a long list with oversized items in it
SplitInputs ==
  {Items(l) : l \in UNION {[1..n -> ItemLens] : n \in 0..3}}
  \cup {Items(Rep(n, 1)) : n \in {MAX_BATCH_SIZE, MAX_BATCH_SIZE + 1, 2 * MAX_BATCH_SIZE + 1}}
  \cup {Items(Rep(MAX_BATCH_SIZE + 1, 50)), Items(Rep(MAX_BATCH_SIZE + 1, 51))}
  \cup {Items([i \in 1..(MAX_BATCH_SIZE + 5) |-> IF i \in {1, 30, 55} THEN 2501 ELSE 1])}

\* textNodes has been collected and the loop starts
InitSplitRun ==
  /\ spc = "loop"
  /\ textNodes \in SplitInputs
  /\ sI = 1
  /\ currentBatch = <<>>
  /\ currentLength = 0
  /\ batches = <<>>

\* SplitStep that pushes currentBatch without testing that it is not empty
SplitStep_PushEmpty ==
  /\ spc = "loop"
  /\ sI <= Len(textNodes)
  /\ LET item == textNodes[sI]
         flush == \/ currentLength + item.len > MAX_TEXT_LENGTH
                  \/ Len(currentBatch) >= MAX_BATCH_SIZE
     IN /\ batches' = IF flush THEN Append(batches, currentBatch) ELSE batches
        /\ currentBatch' = IF flush THEN <<item>> ELSE Append(currentBatch, item)
        /\ currentLength' = IF flush THEN item.len ELSE currentLength + item.len
  /\ sI' = sI + 1
  /\ UNCHANGED <<spc, textNodes>>
  /\ UNCHANGED otherThanSplit

\* one iteration of the for loop (lines 273-286)
SplitStep ==
  /\ spc = "loop"
  /\ sI <= Len(textNodes)
  /\ LET item == textNodes[sI]
         flush == \/ currentLength + item.len > MAX_TEXT_LENGTH
                  \/ Len(currentBatch) >= MAX_BATCH_SIZE
     IN /\ batches' = IF flush /\ Len(currentBatch) > 0 THEN Append(batches, currentBatch)
                      ELSE batches
        /\ currentBatch' = IF flush THEN <<item>> ELSE Append(currentBatch, item)
        /\ currentLength' = IF flush THEN item.len ELSE currentLength + item.len
  /\ sI' = sI + 1
  /\ UNCHANGED <<spc, textNodes>>
  /\ UNCHANGED otherThanSplit

\* the loop is over: the last batch is pushed (lines 288-290)
SplitFinish ==
  /\ spc = "loop"
  /\ sI > Len(textNodes)
  /\ batches' = IF Len(currentBatch) > 0 THEN Append(batches, currentBatch) ELSE batches
  /\ spc' = "done"
  /\ UNCHANGED <<textNodes, sI, currentBatch, currentLength>>
  /\ UNCHANGED otherThanSplit

NextSplit ==
  \/ SplitStep
  \/ SplitFinish

\* ------------------------------------------------------------------------
\* Calls of generateCacheKey
\* ------------------------------------------------------------------------
MaxKeyCalls == 2

\* the arguments that are tried; contextType None stands for an omitted
\* argument
KeyArgs ==
  {[text |-> tx, sourceLang |-> sl, targetLang |-> tl, contextType |-> cx] :
     tx \in {"hello", "nihao"}, sl \in {"en", "zh"}, tl \in {"zh", "en"},
     cx \in {None, "", "general", "technical"}}

\* generateCacheKey is called and its key is recorded
KeyCall(args) ==
  /\ Len(keyCalls) < MaxKeyCalls
  /\ keyCalls' = Append(keyCalls,
                        [args |-> args,
                         key |-> generateCacheKey(args.text, args.sourceLang, args.targetLang,
                                                  args.contextType)])
  /\ UNCHANGED otherThanKey

KeyCalls == \E args \in KeyArgs : KeyCall(args)

NextKey == KeyCalls

\* ------------------------------------------------------------------------
\* detectLanguage of the free providers (providers/index.ts)
\* ------------------------------------------------------------------------

\* the texts that are tried: their length and their count of characters in
\* the range of the regular expression
DetectTexts ==
  {[len |-> 0, cjk |-> 0], [len |-> 10, cjk |-> 0], [len |-> 10, cjk |-> 3],
   [len |-> 10, cjk |-> 4], [len |-> 10, cjk |-> 10], [len |-> 200, cjk |-> 60],
   [len |-> 200, cjk |-> 61], [len |-> 1, cjk |-> 1], [len |-> 3, cjk |-> 1]}

\* data[2] of the answers that are tried; None is an answer without it
DetectedLangs == {"zh", "ja", "", None}

\* the fallback of the catch block (lines 317-320):
\* matches && matches.length > text.length * 0.3 ? 'zh' : 'en'
Heuristic(text) == IF text.cjk > 0 /\ 10 * text.cjk > 3 * text.len THEN "zh" ELSE "en"

\* lines 303-307: the controller, the timer, and the fetch of
\* translateWithGoogleDirect
DetectCall(text) ==
  /\ dtpc = "idle"
  /\ dtpc' = "fetch"
  /\ dtText' = text
  /\ dtTimer' = "armed"
  /\ dtState' = "pending"
  /\ UNCHANGED <<dtCleared, dtAborted, dtValue, dtVendor>>
  /\ UNCHANGED otherThanDetect

\* the timer fires: controller.abort()
DetectTimeout ==
  /\ dtTimer = "armed"
  /\ ~dtCleared
  /\ dtTimer' = "fired"
  /\ dtAborted' = TRUE
  /\ UNCHANGED <<dtpc, dtText, dtCleared, dtState, dtValue, dtVendor>>
  /\ UNCHANGED otherThanDetect

\* the catch block: clearTimeout and the heuristic
DetectCatch(why) ==
  /\ dtpc' = "done"
  /\ dtCleared' = TRUE
  /\ dtState' = "fulfilled"
  /\ dtValue' = Heuristic(dtText)
  /\ dtVendor' = <<why, None>>
  /\ UNCHANGED <<dtText, dtTimer, dtAborted>>
  /\ UNCHANGED otherThanDetect

\* fetch fulfils with an ok response: response.json() is awaited
DetectFetchOk ==
  /\ dtpc = "fetch"
  /\ ~dtAborted
  /\ dtpc' = "body"
  /\ UNCHANGED <<dtText, dtTimer, dtCleared, dtAborted, dtState, dtValue, dtVendor>>
  /\ UNCHANGED otherThanDetect

\* fetch rejects, or fulfils with a response that is not ok (lines 132-134)
DetectFetchFail(why) ==
  /\ dtpc = "fetch"
  /\ ~dtAborted
  /\ DetectCatch(why)

\* DetectBodyOk that returns result.detectedSourceLang as it is
DetectBodyOk_NoDefault(lang) ==
  /\ dtpc = "body"
  /\ ~dtAborted
  /\ dtpc' = "done"
  /\ dtCleared' = TRUE
  /\ dtState' = "fulfilled"
  /\ dtValue' = lang
  /\ dtVendor' = <<"ok", lang>>
  /\ UNCHANGED <<dtText, dtTimer, dtAborted>>
  /\ UNCHANGED otherThanDetect

\* the body is a well-formed answer: clearTimeout and
\* result.detectedSourceLang || 'en' (lines 315-316)
DetectBodyOk(lang) ==
  /\ dtpc = "body"
  /\ ~dtAborted
  /\ dtpc' = "done"
  /\ dtCleared' = TRUE
  /\ dtState' = "fulfilled"
  /\ dtValue' = IF Truthy(lang) THEN lang ELSE "en"
  /\ dtVendor' = <<"ok", lang>>
  /\ UNCHANGED <<dtText, dtTimer, dtAborted>>
  /\ UNCHANGED otherThanDetect

\* response.json() rejects or the answer has not the expected form
\* (lines 136-141)
DetectBodyFail(why) ==
  /\ dtpc = "body"
  /\ ~dtAborted
  /\ DetectCatch(why)

\* the pending fetch or body read rejects with AbortError after the abort
DetectAborted ==
  /\ dtpc \in {"fetch", "body"}
  /\ dtAborted
  /\ DetectCatch("aborted")

DetectCalls == \E text \in DetectTexts : DetectCall(text)
DetectFetchFails == \E why \in {"network", "http"} : DetectFetchFail(why)
DetectBodyOks == \E lang \in DetectedLangs : DetectBodyOk(lang)
DetectBodyFails == \E why \in {"json", "format"} : DetectBodyFail(why)

NextDetect ==
  \/ DetectCalls
  \/ DetectTimeout
  \/ DetectFetchOk
  \/ DetectFetchFails
  \/ DetectBodyOks
  \/ DetectBodyFails
  \/ DetectAborted

\* ------------------------------------------------------------------------
\* startWebTranslation and stopWebTranslation (extension)
\* ------------------------------------------------------------------------
MaxRuns == 3

Runs == 1..MaxRuns

\* the numbers of batches a run can find in the page; 0: no text was found
BatchCounts == {0, 1, 2}

\* a call that has not been made; pc is "idle", then "request" (awaiting
\* requestWebPageTranslation), "delay" (awaiting the timer) or "done"
NoRun == [pc |-> "idle", n |-> 0, idx |-> 0]

\* the runs that are processing batches
Processing == {r \in Runs : run[r].pc \in {"request", "delay"}}

\* startWebTranslation up to its first await (lines 249-298): the flag, the
\* collected nodes, the batches, and the request of the first batch
StartWeb(r, n) ==
  /\ run[r].pc = "idle"
  /\ \A q \in Runs : q < r => run[q].pc # "idle"
  /\ pgQuiet' = FALSE
  /\ IF isTranslating
       THEN /\ run' = [run EXCEPT ![r] = [pc |-> "done", n |-> 0, idx |-> 0]]
            /\ UNCHANGED isTranslating
       ELSE IF n = 0
         THEN /\ run' = [run EXCEPT ![r] = [pc |-> "done", n |-> 0, idx |-> 0]]
              /\ isTranslating' = FALSE
         ELSE /\ run' = [run EXCEPT ![r] = [pc |-> "request", n |-> n, idx |-> 1]]
              /\ isTranslating' = TRUE
  /\ UNCHANGED <<transNodes, pgLate>>
  /\ UNCHANGED otherThanPage

\* the request of the current batch fulfils: the translation nodes are
\* inserted (lines 300-311), and the delay starts
WebBatchOk(r) ==
  /\ run[r].pc = "request"
  /\ transNodes' = transNodes \cup {<<r, run[r].idx>>}
  /\ pgLate' = IF pgQuiet THEN pgLate \cup {"insert"} ELSE pgLate
  /\ run' = [run EXCEPT ![r].pc = "delay"]
  /\ UNCHANGED <<isTranslating, pgQuiet>>
  /\ UNCHANGED otherThanPage

\* the request rejects: the loading state is removed (lines 313-318), and
\* the delay starts
WebBatchFail(r) ==
  /\ run[r].pc = "request"
  /\ run' = [run EXCEPT ![r].pc = "delay"]
  /\ UNCHANGED <<isTranslating, transNodes, pgQuiet, pgLate>>
  /\ UNCHANGED otherThanPage

\* the delay is over (line 322): the next batch is requested if there is
\* one and the flag is set (line 293); otherwise the run ends (line 325)
WebDelayDone(r) ==
  /\ run[r].pc = "delay"
  /\ IF run[r].idx < run[r].n /\ isTranslating
       THEN /\ run' = [run EXCEPT ![r].pc = "request", ![r].idx = run[r].idx + 1]
            /\ pgLate' = IF pgQuiet THEN pgLate \cup {"request"} ELSE pgLate
            /\ UNCHANGED isTranslating
       ELSE /\ run' = [run EXCEPT ![r].pc = "done"]
            /\ isTranslating' = FALSE
            /\ UNCHANGED pgLate
  /\ UNCHANGED <<transNodes, pgQuiet>>
  /\ UNCHANGED otherThanPage

\* stopWebTranslation (lines 333-350)
StopWeb ==
  /\ isTranslating' = FALSE
  /\ transNodes' = {}
  /\ pgQuiet' = TRUE
  /\ pgLate' = {}
  /\ UNCHANGED run
  /\ UNCHANGED otherThanPage

StartWebs == \E r \in Runs, n \in BatchCounts : StartWeb(r, n)
WebBatchOks == \E r \in Runs : WebBatchOk(r)
WebBatchFails == \E r \in Runs : WebBatchFail(r)
WebDelayDones == \E r \in Runs : WebDelayDone(r)

NextPage ==
  \/ StartWebs
  \/ WebBatchOks
  \/ WebBatchFails
  \/ WebDelayDones
  \/ StopWeb

\* ------------------------------------------------------------------------
\* The useRefine hook (extension)
\* ------------------------------------------------------------------------
MaxHookCalls == 3

HookCalls == 1..MaxHookCalls

\* a call of refine that has not been made; pc is "idle", then "flight"
\* (awaiting chrome.runtime.sendMessage) or "done"
NoHookCall ==
  [pc |-> "idle", userId |-> 0, instruction |-> None, history |-> <<>>, before |-> <<>>,
   alone |-> TRUE, outcome |-> "none"]

\* the calls of refine that are awaiting their response
HookInFlight == {c \in HookCalls : hkCall[c].pc = "flight"}

\* every call in flight has now overlapped with another call or a reset
Disturbed(hc) ==
  [c \in HookCalls |-> IF hc[c].pc = "flight" THEN [hc[c] EXCEPT !.alone = FALSE]
                       ELSE hc[c]]

\* lines 66-74: the history that is sent, from the messages and the new one
HookHistory(currentMessages) ==
  LET recent == LastOf(currentMessages, 20)
  IN [i \in 1..(Len(recent) - 1) |-> [role |-> recent[i].role, content |-> recent[i].content]]

\* refine up to await chrome.runtime.sendMessage (lines 53-86)
HookRefine(c, instruction) ==
  /\ hkCall[c].pc = "idle"
  /\ \A q \in HookCalls : q < c => hkCall[q].pc # "idle"
  /\ LET userMessage == [id |-> messageCounter + 1, role |-> "user", content |-> instruction]
     IN /\ isRefining' = TRUE
        /\ hkError' = <<>>
        /\ messageCounter' = messageCounter + 1
        /\ messages' = Append(messages, userMessage)
        /\ hkCall' = [Disturbed(hkCall) EXCEPT ![c] =
                        [pc |-> "flight", userId |-> userMessage.id,
                         instruction |-> instruction,
                         history |-> HookHistory(Append(messages, userMessage)),
                         before |-> messages, alone |-> HookInFlight = {},
                         outcome |-> "none"]]
  /\ hkLast' = 0
  /\ UNCHANGED otherThanHook

\* HookFail that keeps the user message
HookFail_KeepsUserMessage(c, message) ==
  /\ hkCall[c].pc = "flight"
  /\ hkError' = <<message>>
  /\ messages' = messages
  /\ isRefining' = FALSE
  /\ hkCall' = [hkCall EXCEPT ![c].pc = "done", ![c].outcome = "failed"]
  /\ hkLast' = c
  /\ UNCHANGED messageCounter
  /\ UNCHANGED otherThanHook

\* the catch and finally blocks (lines 107-117): the request rejected, the
\* response held an error, or it held no refined text
HookFail(c, message) ==
  /\ hkCall[c].pc = "flight"
  /\ hkError' = <<message>>
  /\ messages' = SelectSeq(messages, LAMBDA m : m.id # hkCall[c].userId)
  /\ isRefining' = FALSE
  /\ hkCall' = [hkCall EXCEPT ![c].pc = "done", ![c].outcome = "failed"]
  /\ hkLast' = c
  /\ UNCHANGED messageCounter
  /\ UNCHANGED otherThanHook

\* the response holds a refined text (lines 92-106, 115-117)
HookOk(c, refinedText) ==
  /\ hkCall[c].pc = "flight"
  /\ messageCounter' = messageCounter + 1
  /\ messages' = Append(messages, [id |-> messageCounter + 1, role |-> "assistant",
                                   content |-> refinedText])
  /\ isRefining' = FALSE
  /\ hkCall' = [hkCall EXCEPT ![c].pc = "done", ![c].outcome = "ok"]
  /\ hkLast' = c
  /\ UNCHANGED hkError
  /\ UNCHANGED otherThanHook

\* reset (lines 122-126)
HookReset ==
  /\ messages' = <<>>
  /\ hkError' = <<>>
  /\ isRefining' = FALSE
  /\ hkCall' = Disturbed(hkCall)
  /\ hkLast' = 0
  /\ UNCHANGED messageCounter
  /\ UNCHANGED otherThanHook

\* the failure messages: response.error, no refined text, a rejection
\* that is no Error
HookFailures == {"HTTP 500", "No refined text returned", "Refinement failed"}

HookRefines == \E c \in HookCalls, ins \in {"shorter", "formal"} : HookRefine(c, ins)
HookFails == \E c \in HookCalls, m \in HookFailures : HookFail(c, m)
HookOks == \E c \in HookCalls : HookOk(c, "refined")

NextHook ==
  \/ HookRefines
  \/ HookFails
  \/ HookOks
  \/ HookReset

\* ------------------------------------------------------------------------
\* dualTranslate of useTranslate, called by the PDF viewer (extension)
\* ------------------------------------------------------------------------
MaxRequests == 3

\* the calls of dualTranslate, numbered in the order they are issued
ViewRequests == 1..MaxRequests

\* a call that has not been made; pc is "idle", then "flight" (awaiting
\* detectLanguage or chrome.runtime.sendMessage) or "done"
NoViewRequest == [pc |-> "idle", target |-> None, outcome |-> "none"]

\* dualTranslate up to its first await (part_010:104-113), called by
\* handleTranslate or handleLanguageChange
DualTranslate(q, target) ==
  /\ vwReq[q].pc = "idle"
  /\ \A p \in ViewRequests : p < q => vwReq[p].pc # "idle"
  /\ vwReq' = [vwReq EXCEPT ![q] = [pc |-> "flight", target |-> target, outcome |-> "none"]]
  /\ vwError' = <<>>
  /\ dualResult' = 0
  /\ UNCHANGED pdfResult
  /\ UNCHANGED otherThanView

\* the response arrives: setDualResult in the hook (part_010:137-161),
\* then in the viewer with the returned result
DualArrives(q) ==
  /\ vwReq[q].pc = "flight"
  /\ vwReq' = [vwReq EXCEPT ![q].pc = "done", ![q].outcome = "ok"]
  /\ dualResult' = q
  /\ pdfResult' = q
  /\ UNCHANGED vwError
  /\ UNCHANGED otherThanView

\* the request fails (part_010:162-165): error is set and null is returned
DualFails(q, message) ==
  /\ vwReq[q].pc = "flight"
  /\ vwReq' = [vwReq EXCEPT ![q].pc = "done", ![q].outcome = "failed"]
  /\ vwError' = <<message>>
  /\ UNCHANGED <<dualResult, pdfResult>>
  /\ UNCHANGED otherThanView

DualTranslates == \E q \in ViewRequests, tl \in {"zh", "en"} : DualTranslate(q, tl)
DualArrivals == \E q \in ViewRequests : DualArrives(q)
DualFailures == \E q \in ViewRequests, m \in {"HTTP 500", "Translation failed"} : DualFails(q, m)

NextView ==
  \/ DualTranslates
  \/ DualArrivals
  \/ DualFailures

\* ------------------------------------------------------------------------
\* Concurrent writers of translation_memory: saveToMemory and POST /api/memory
\* ------------------------------------------------------------------------
MaxSavers == 2
Savers == 1..MaxSavers

SaverKinds == {"saveToMemory", "POST /memory"}

\* the arguments of saveToMemory / the body of POST /api/memory
SaveArgs ==
  {[sourceText |-> st, targetText |-> tt, sourceLang |-> "en", targetLang |-> "zh",
    contextType |-> None, model |-> None] :
      st \in {"hello", "bye"}, tt \in {"t1", "t2", ""}}

NoSaver == [pc |-> "idle", kind |-> None, args |-> <<>>, status |-> 0, outcome |-> "none",
            overlapped |-> FALSE]

\* some request has been made and has not finished
InFlight == {s \in Savers : saver[s].pc \in {"hashing", "statement"}}

InitMem ==
  /\ rows = {}
  /\ nextId = 1
  /\ memClock = 0
  /\ saver = [s \in Savers |-> NoSaver]

\* the rows that conflict with a key under the UNIQUE constraint
Conflicting(rs, key) == {r \in rs : r.key = key}

\* a plain INSERT on a table without the UNIQUE constraint
Upsert_PlainInsert(rs, id, args, modelUsed, now) ==
  rs \cup {[id |-> id, key |-> MemKey(args.sourceText, args.sourceLang, args.targetLang),
             source_text |-> args.sourceText, target_text |-> args.targetText,
             context_type |-> IF Truthy(args.contextType) THEN args.contextType
                              ELSE "general",
             model_used |-> modelUsed, quality_score |-> 0, use_count |-> 1,
             created_at |-> now, updated_at |-> now]}

\* INSERT ... ON CONFLICT(source_hash, source_lang, target_lang) DO UPDATE,
\* executed as one statement
Upsert(rs, id, args, modelUsed, now) ==
  LET key == MemKey(args.sourceText, args.sourceLang, args.targetLang)
  IN IF Conflicting(rs, key) # {}
       THEN {IF r.key = key
               THEN [r EXCEPT !.target_text = args.targetText, !.use_count = @ + 1,
                              !.updated_at = now]
               ELSE r : r \in rs}
       ELSE rs \cup {[id |-> id, key |-> key,
                      source_text |-> args.sourceText, target_text |-> args.targetText,
                      context_type |-> IF Truthy(args.contextType) THEN args.contextType
                                       ELSE "general",
                      model_used |-> modelUsed, quality_score |-> 0, use_count |-> 1,
                      created_at |-> now, updated_at |-> now]}

\* a request arrives: saveToMemory is called, or POST /api/memory validates
\* its body and answers 400 or goes on to hashText
SaveCall(s, kind, args) ==
  /\ saver[s].pc = "idle"
  /\ saver' = [saver EXCEPT ![s] =
       IF kind = "POST /memory" /\ (~Truthy(args.sourceText) \/ ~Truthy(args.targetText)
                                    \/ ~Truthy(args.sourceLang) \/ ~Truthy(args.targetLang))
         THEN [pc |-> "done", kind |-> kind, args |-> <<args>>, status |-> 400,
               outcome |-> "none", overlapped |-> FALSE]
         ELSE [pc |-> "hashing", kind |-> kind, args |-> <<args>>, status |-> 0,
               outcome |-> "none", overlapped |-> InFlight # {}]]
  /\ UNCHANGED <<rows, nextId, memClock>>
  /\ UNCHANGED otherThanMem

\* await hashText(sourceText) resumes and the statement is sent
SaveHashed(s) ==
  /\ saver[s].pc = "hashing"
  /\ saver' = [saver EXCEPT ![s].pc = "statement"]
  /\ UNCHANGED <<rows, nextId, memClock>>
  /\ UNCHANGED otherThanMem

\* the database executes the statement, or fails it; saveToMemory swallows
\* the failure, POST /api/memory answers 500
SaveRun(s, ok) ==
  /\ saver[s].pc = "statement"
  /\ LET args == saver[s].args[1]
         modelUsed == IF saver[s].kind = "saveToMemory" THEN "openai"
                      ELSE IF Truthy(args.model) THEN args.model ELSE "unknown"
     IN IF ok
          THEN /\ rows' = Upsert(rows, nextId, args, modelUsed, memClock + 1)
               /\ nextId' = nextId + 1
               /\ memClock' = memClock + 1
          ELSE UNCHANGED <<rows, nextId, memClock>>
  /\ saver' = [saver EXCEPT ![s].pc = "done",
                            ![s].outcome = IF ok THEN "ok" ELSE "fail",
                            ![s].status = IF saver[s].kind = "saveToMemory" THEN 0
                                          ELSE IF ok THEN 200 ELSE 500]
  /\ UNCHANGED otherThanMem

SaveCalls == \E s \in Savers, kind \in SaverKinds, args \in SaveArgs : SaveCall(s, kind, args)
SaveHasheds == \E s \in Savers : SaveHashed(s)
SaveRuns == \E s \in Savers, ok \in BOOLEAN : SaveRun(s, ok)

NextMem ==
  \/ SaveCalls
  \/ SaveHasheds
  \/ SaveRuns

\* ------------------------------------------------------------------------
\* Specifications
\* ------------------------------------------------------------------------
\* the components a specification does not exercise, at rest
InitSplit ==
  /\ spc = "done"
  /\ textNodes = <<>>
  /\ sI = 1
  /\ currentBatch = <<>>
  /\ currentLength = 0
  /\ batches = <<>>

InitKey == keyCalls = <<>>

InitDetect ==
  /\ dtpc = "idle"
  /\ dtText = [len |-> 0, cjk |-> 0]
  /\ dtTimer = "none"
  /\ dtCleared = FALSE
  /\ dtAborted = FALSE
  /\ dtState = "idle"
  /\ dtValue = None
  /\ dtVendor = <<"none", None>>

InitPage ==
  /\ isTranslating = FALSE
  /\ run = [r \in Runs |-> NoRun]
  /\ transNodes = {}
  /\ pgQuiet = FALSE
  /\ pgLate = {}

InitHook ==
  /\ messages = <<>>
  /\ isRefining = FALSE
  /\ hkError = <<>>
  /\ messageCounter = 0
  /\ hkCall = [c \in HookCalls |-> NoHookCall]
  /\ hkLast = 0

InitView ==
  /\ dualResult = 0
  /\ pdfResult = 0
  /\ vwError = <<>>
  /\ vwReq = [q \in ViewRequests |-> NoViewRequest]

InitLate ==
  /\ InitDetect
  /\ InitPage
  /\ InitHook
  /\ InitView

InitRest ==
  /\ InitLate
  /\ InitMem
  /\ InitBatch
  /\ InitBatchRoute
  /\ InitRefine
  /\ InitSplit
  /\ InitKey

Init ==
  /\ InitRace
  /\ InitRetry
  /\ InitTr
  /\ InitRoute
  /\ InitDualVars
  /\ InitRest

SpecRace == Init /\ [][NextRace]_vars

SpecRetry == Init /\ [][NextRetry]_vars

SpecTranslate == Init /\ [][NextTranslate]_vars

InitDual ==
  /\ InitRace
  /\ InitRetry
  /\ InitDualCache
  /\ InitTrCall
  /\ InitRoute
  /\ InitDualVars
  /\ InitRest

SpecDual == InitDual /\ [][NextDual]_vars

SpecMem == Init /\ [][NextMem]_vars

InitBatchSpec ==
  /\ InitRace
  /\ InitRetry
  /\ InitBatchCache
  /\ InitTrCall
  /\ InitRoute
  /\ InitDualVars
  /\ InitRest

SpecBatch == InitBatchSpec /\ [][NextBatch]_vars

SpecSelect == InitDual /\ [][NextSelect]_vars

SpecValidate == InitBatchSpec /\ [][NextValidate]_vars

InitSplitSpec ==
  /\ InitRace
  /\ InitRetry
  /\ InitTr
  /\ InitRoute
  /\ InitDualVars
  /\ InitMem
  /\ InitBatch
  /\ InitBatchRoute
  /\ InitRefine
  /\ InitSplitRun
  /\ InitKey
  /\ InitLate

SpecSplit == InitSplitSpec /\ [][NextSplit]_vars

SpecKey == Init /\ [][NextKey]_vars

SpecRefine == Init /\ [][NextRefine]_vars

SpecPage == Init /\ [][NextPage]_vars

SpecHook == Init /\ [][NextHook]_vars

SpecView == Init /\ [][NextView]_vars

\* the timer fires when it is due, and an aborted request rejects; nothing
\* is assumed of the network
SpecDetect ==
  /\ Init
  /\ [][NextDetect]_vars
  /\ WF_vars(DetectTimeout)
  /\ WF_vars(DetectAborted)

\* ------------------------------------------------------------------------
\* Properties of freeTranslate (SpecRace)
\* ------------------------------------------------------------------------

\* the backends whose call completed successfully, in completion order
ResolvedInOrder == SelectSeq(settleOrder, LAMBDA b : bstate[b] = "resolved")

\* C1: every backend is started with the same inputs; freeTranslate
\* fulfils with the result of the backend that completed successfully first
\* in completion order; by then abort() has been called, every backend
\* that was still in flight at that moment can only end as cancelled, and
\* its result is never the one returned.
C1_FirstSuccessWinsOthersCancelled ==
  /\ ftState # "idle" =>
       \A b \in BackendSet :
         /\ bstate[b] # "idle"
         /\ backendArgs[b].text = ftArgs.text
         /\ \A c \in BackendSet : backendArgs[c] = backendArgs[b]
  /\ ftState = "fulfilled" =>
       /\ ResolvedInOrder # <<>>
       /\ ftValue = bvalue[ResolvedInOrder[1]]
       /\ aborted
       /\ ftValue.provider \notin pendingAtAbort
  /\ (\E b \in BackendSet : wstate[b] = "fulfilled") => aborted
  /\ \A b \in pendingAtAbort :
       /\ bstate[b] \in {"pending", "rejected"}
       /\ bstate[b] = "rejected" => bvalue[b].name = "AbortError"
       /\ wstate[b] # "fulfilled"

\* the last backend of the providers array wins while the other two are
\* still in flight, and both end as cancelled
C1_Witness ==
  /\ ftState = "fulfilled"
  /\ ftValue.provider = "lingva"
  /\ pendingAtAbort = {"google-direct", "mymemory"}
  /\ \A b \in pendingAtAbort : bstate[b] = "rejected" /\ bvalue[b].name = "AbortError"

\* C2: freeTranslate rejects if and only if all three backends failed; as
\* soon as one backend has succeeded the race is decided as fulfilled, even
\* after failures of others; a failure alone never triggers the abort.
C2_RejectsIffAllFailed ==
  /\ ftState = "rejected" => \A b \in BackendSet : bstate[b] = "rejected"
  /\ anyState = "rejected" <=> \A b \in BackendSet : wstate[b] = "rejected"
  /\ anyState = "fulfilled" <=> \E b \in BackendSet : wstate[b] = "fulfilled"
  /\ ftState = "fulfilled" => anyState = "fulfilled"
  /\ ftState = "rejected" => anyState = "rejected"
  /\ aborted => \E b \in BackendSet : wstate[b] = "fulfilled"
  /\ \A b \in BackendSet :
       (bstate[b] = "rejected" /\ bvalue[b].name = "AbortError")
         => \E c \in BackendSet : wstate[c] = "fulfilled"

\* two backends failed by themselves before the third succeeded
C2_Witness ==
  /\ ftState = "fulfilled"
  /\ Len(settleOrder) = 3
  /\ bstate[settleOrder[1]] = "rejected" /\ bvalue[settleOrder[1]].name # "AbortError"
  /\ bstate[settleOrder[2]] = "rejected" /\ bvalue[settleOrder[2]].name # "AbortError"
  /\ bstate[settleOrder[3]] = "resolved"

\* C3: when all three backends reject with non-cancellation errors, the
\* aggregate error's message contains the message of each of the three
\* errors and no 'aborted (another provider won)' pseudo-error.
C3_AggregateNamesEveryError ==
  (/\ ftState = "rejected"
   /\ \A b \in BackendSet : bstate[b] = "rejected" /\ bvalue[b].name # "AbortError")
  => /\ \A b \in BackendSet : ContainsMsg(ftValue.message, bvalue[b].message)
     /\ ~ContainsMsg(ftValue.message, <<AbortedWonFrag>>)

\* ------------------------------------------------------------------------
\* Properties of fetchWithRetry (SpecRetry)
\* ------------------------------------------------------------------------

\* C8: a 4xx answer ends the call at once: it is the last attempt, the
\* 'API error <status>' error is thrown, and no backoff wait follows it.
C8_ClientErrorNotRetried ==
  \A k \in DOMAIN attempts :
    IsClientError(attempts[k]) =>
      /\ Len(attempts) = k
      /\ Len(waits) = k - 1
      /\ rpc = "thrown"
      /\ rResult = AttemptError(attempts[k])

\* C9: at most 3 fetch attempts; the waits are 1000 ms after the first and
\* 2000 ms after the second failed attempt and none after the third; an ok
\* response is returned at once and is the last attempt; the call throws
\* only after 3 failed attempts, and then throws the error of the last one;
\* after the third attempt the call has ended.
C9_RetryBudget ==
  /\ Len(attempts) <= 3
  /\ Len(waits) <= 2
  /\ \A k \in DOMAIN waits :
       /\ waits[k] = (IF k = 1 THEN 1000 ELSE 2000)
       /\ k <= Len(attempts)
       /\ ~IsOk(attempts[k])
  /\ \A k \in DOMAIN attempts :
       /\ IsOk(attempts[k]) => (k = Len(attempts) /\ rpc = "returned" /\ rResult = attempts[k])
       /\ (~IsOk(attempts[k]) /\ k < 3) => Len(waits) >= k
  /\ rpc = "returned" => (attempts # <<>> /\ IsOk(attempts[Len(attempts)]))
  /\ rpc = "thrown" =>
       /\ Len(attempts) = 3
       /\ \A k \in 1..3 : ~IsOk(attempts[k])
       /\ waits = <<1000, 2000>>
       /\ rResult = AttemptError(attempts[3])
  /\ Len(attempts) = 3 => rpc \in {"returned", "thrown"}

\* the vendor answered 500, then a network error, then 503: three attempts,
\* two waits, the last error thrown
C9_Witness ==
  /\ rpc = "thrown"
  /\ Len(attempts) = 3
  /\ attempts[1].status = 500
  /\ attempts[2].kind = "network"
  /\ attempts[3].status = 503
  /\ rResult.message = "HTTP" /\ rResult.status = 503

\* ------------------------------------------------------------------------
\* Properties of POST /api/translate/dual (SpecDual)
\* ------------------------------------------------------------------------

\* the request has both required fields
ValidDual == Truthy(dBody.text) /\ Truthy(dBody.targetLang)

\* C4: a valid dual request is answered with 200 whatever the two halves
\* did; a failed half has translatedText null and its own error message in
\* its error field, a succeeded half has its own non-null translatedText
\* and no error; each half's fields depend on its own outcome only.
C4_DualHalvesIndependent ==
  (dpc = "responded" /\ ValidDual) =>
    /\ dResp.status = 200
    /\ ftState \in {"fulfilled", "rejected"}
    /\ ftState = "rejected" =>
         /\ dResp.data.machine.translatedText = None
         /\ dResp.data.machine.error = <<ftValue.message>>
    /\ ftState = "fulfilled" =>
         /\ dResp.data.machine.translatedText = ftValue.translatedText
         /\ dResp.data.machine.translatedText # None
         /\ dResp.data.machine.error = <<>>
    /\ (hasLLMConfig /\ tState = "rejected") =>
         /\ dResp.data.llm.translatedText = None
         /\ dResp.data.llm.error = <<tValue.message>>
    /\ (hasLLMConfig /\ tState = "fulfilled") =>
         /\ dResp.data.llm.translatedText = tValue.translatedText
         /\ dResp.data.llm.translatedText # None
         /\ dResp.data.llm.error = <<>>

\* both halves failed and the request is still answered with 200
C4_Witness ==
  /\ dpc = "responded"
  /\ dResp.status = 200
  /\ ftState = "rejected"
  /\ hasLLMConfig /\ tState = "rejected"
  /\ dResp.data.machine.error # <<>>
  /\ dResp.data.llm.error = <<"HTTP 503">>

\* C5: while the handler waits, both halves have been started; the
\* response exists only once both halves have settled, whichever settled
\* first.
C5_AssembledAfterBothSettled ==
  /\ dpc = "running" =>
       /\ ftState # "idle"
       /\ \A b \in BackendSet : bstate[b] # "idle"
       /\ hasLLMConfig => tState # "idle"
  /\ (dpc = "responded" /\ dResp.status = 200) =>
       /\ ftState \in {"fulfilled", "rejected"}
       /\ machineResult # <<>>
       /\ llmResult # <<>>
       /\ hasLLMConfig => (tState \in {"fulfilled", "rejected"} /\ tpc = "done")
       /\ Len(dOrder) = (IF hasLLMConfig THEN 2 ELSE 1)

\* the LLM half settled first and the response was built after the machine
\* half settled too
C5_Witness ==
  /\ dpc = "responded"
  /\ dResp.status = 200
  /\ dOrder = <<"llm", "machine">>

\* some property of apiKeys holds a non-empty string
AnyNonEmptyKey(body) ==
  body.hasApiKeys /\ \E p \in DOMAIN body.apiKeys : body.apiKeys[p] # ""

\* C6: llm.available is true exactly when apiKeys is present and holds a
\* non-empty key; the value is fixed when the handler starts the two calls
\* and does not depend on how the LLM call ends.
C6_AvailableFromKeysOnly ==
  /\ dpc = "running" => hasLLMConfig = AnyNonEmptyKey(dBody)
  /\ (dpc = "responded" /\ dResp.status = 200) =>
       /\ hasLLMConfig = AnyNonEmptyKey(dBody)
       /\ dResp.data.llm.available = AnyNonEmptyKey(dBody)

\* available is true although the LLM call ended in an error
C6_Witness ==
  /\ dpc = "responded"
  /\ dResp.status = 200
  /\ dResp.data.llm.available
  /\ tState = "rejected"
  /\ dResp.data.llm.error # <<>>

\* ------------------------------------------------------------------------
\* Properties of POST /api/translate (SpecTranslate)
\* ------------------------------------------------------------------------

\* two request bodies name the same fragment
SameFragment(b1, b2) ==
  /\ b1.text = b2.text
  /\ b1.sourceLang = b2.sourceLang
  /\ b1.targetLang = b2.targetLang
  /\ b1.ctx = b2.ctx

\* the request just answered repeats the fragment of the request before
\* it, which succeeded, both with useCache on
RepeatedWithCache ==
  /\ hpc = "responded"
  /\ prev # <<>>
  /\ prev[1].status = 200
  /\ SameFragment(prev[1].body, hBody)
  /\ prev[1].body.useCache
  /\ hBody.useCache

\* C7 as stated: the second of two calls with an identical fragment and
\* useCache on returns cached = true and issues no provider chat call.
C7_SecondCallCached ==
  RepeatedWithCache =>
    /\ hResp.status = 200
    /\ hResp.data.cached
    /\ tTrace.chat = <<>>

\* C7 amended: if the first call left the fragment in the cache (it was
\* answered from the cache, or it stored its non-empty translation), the
\* entry has not expired since and the second call's cache read does not
\* fail, the second call returns cached = true with the first call's
\* translation and issues no provider chat call.
C7_SecondCallCachedWhenStored ==
  (/\ RepeatedWithCache
   /\ prev[1].data.cached \/ prev[1].trace.kvWrite = "ok"
   /\ tTrace.kvRead # "fail"
   /\ ~tTrace.expired)
  => /\ hResp.status = 200
     /\ hResp.data.cached
     /\ tTrace.chat = <<>>
     /\ hResp.data.translatedText = prev[1].data.translatedText

\* the first call translated and stored, the second was answered from the
\* cache
C7_Witness ==
  /\ RepeatedWithCache
  /\ prev[1].trace.kvWrite = "ok"
  /\ Len(prev[1].trace.chat) = 1
  /\ hResp.status = 200
  /\ hResp.data.cached
  /\ hResp.data.translatedText = "tr1"
  /\ tTrace.chat = <<>>

\* the errors a translation can end in: the provider's, or no credential
TranslationErrors == ChatErrors \cup {"No API key configured"}

\* C10: a failing cache read is handled as a miss; once the provider has
\* answered, translateWithUserKeys fulfils with the provider's (trimmed)
\* translation and POST /translate answers 200 with it, whatever the cache
\* write and the memory write did; no error other than the provider's or
\* the missing credential reaches the caller.
C10_CacheAndMemoryFailuresSwallowed ==
  /\ (tTrace.kvRead \in {"fail", "miss"}) =>
       \/ tTrace.chat # <<>>
       \/ (tState = "rejected" /\ tValue.message = "No API key configured")
  /\ (tpc = "done" /\ tTrace.content # None) =>
       /\ tState = "fulfilled"
       /\ tValue.translatedText = Trim(tTrace.content)
       /\ ~tValue.cached
  /\ (hpc = "responded" /\ tTrace.content # None) =>
       /\ hResp.status = 200
       /\ hResp.data.translatedText = Trim(tTrace.content)
  /\ tState = "rejected" => tValue.message \in TranslationErrors
  /\ (hpc = "responded" /\ hResp.status = 500) => hResp.error \in TranslationErrors

\* the cache read, the cache write and the memory write all failed and the
\* request was answered with the provider's translation
C10_Witness ==
  /\ hpc = "responded"
  /\ hResp.status = 200
  /\ tTrace.kvRead = "fail"
  /\ tTrace.kvWrite = "fail"
  /\ hMemWrite = "fail"
  /\ hResp.data.translatedText = "tr1"
  /\ ~hResp.data.cached

\* ------------------------------------------------------------------------
\* Properties of the translation memory written by POST /api/translate
\* ------------------------------------------------------------------------

\* use_count of the row of a key, 0 when there is no row
UseCount(m, key) == IF key \in DOMAIN m THEN m[key].use_count ELSE 0

\* the step in which a request with useMemory on is answered with success
AnsweredWithMemoryOn ==
  /\ hpc \in {"translating", "saving"}
  /\ hpc' = "responded"
  /\ hResp'.status = 200
  /\ hBody.useMemory

\* the memory key of the request being answered
AnsweredKey == MemKey(hBody.text, hResp'.data.sourceLang, hResp'.data.targetLang)

\* C11 as stated: every successful translation of a fragment through
\* POST /translate with useMemory on increments the use_count of the
\* fragment's memory row by one.
C11_EveryTranslationCounted ==
  [][AnsweredWithMemoryOn =>
       UseCount(mem', AnsweredKey) = UseCount(mem, AnsweredKey) + 1]_vars

\* C11 amended: a translation with useMemory on that was not answered from
\* the cache and whose memory write succeeded increments the row's
\* use_count by one (1 for a new row) and overwrites target_text and
\* updated_at, leaving every other row alone; a translation answered from
\* the cache, or one whose memory write failed, leaves the table unchanged.
C11_UncachedTranslationCounted ==
  [][AnsweredWithMemoryOn =>
       IF ~hResp'.data.cached /\ hMemWrite' = "ok"
         THEN /\ UseCount(mem', AnsweredKey) = UseCount(mem, AnsweredKey) + 1
              /\ mem'[AnsweredKey].target_text = hResp'.data.translatedText
              /\ mem'[AnsweredKey].updated_at = calls
              /\ \A k \in DOMAIN mem \ {AnsweredKey} : mem'[k] = mem[k]
         ELSE mem' = mem]_vars

\* the same fragment was translated by the provider twice and its row
\* counts both
C11_Witness ==
  /\ hpc = "responded"
  /\ hResp.status = 200
  /\ hMemWrite = "ok"
  /\ prev # <<>>
  /\ prev[1].memWrite = "ok"
  /\ SameFragment(prev[1].body, hBody)
  /\ Len(tTrace.chat) = 1
  /\ UseCount(mem, MemKey(hBody.text, hResp.data.sourceLang, hResp.data.targetLang)) = 2
  /\ mem[MemKey(hBody.text, hResp.data.sourceLang, hResp.data.targetLang)].updated_at = 2

\* ------------------------------------------------------------------------
\* Properties of the concurrent writers of translation_memory (SpecMem)
\* ------------------------------------------------------------------------

\* the keys the requests can write
SaveKeys == {MemKey(a.sourceText, a.sourceLang, a.targetLang) : a \in SaveArgs}

\* the requests whose statement on a key has been executed
SavedOn(key) ==
  {s \in Savers : /\ saver[s].outcome = "ok"
                  /\ MemKey(saver[s].args[1].sourceText, saver[s].args[1].sourceLang,
                            saver[s].args[1].targetLang) = key}

\* C12: whatever the interleaving of saveToMemory and POST /memory
\* requests, the table holds at most one row per (source_hash, source_lang,
\* target_lang); a key that n >= 1 requests have saved has exactly one row
\* and its use_count is n, a key nobody saved has no row.
C12_OneRowPerKeyNoLostUpdate ==
  /\ \A r1, r2 \in rows : r1.key = r2.key => r1 = r2
  /\ \A key \in SaveKeys :
       LET n == Cardinality(SavedOn(key))
       IN IF n = 0 THEN Conflicting(rows, key) = {}
          ELSE /\ Cardinality(Conflicting(rows, key)) = 1
               /\ \A r \in Conflicting(rows, key) : r.use_count = n

\* requests of both kinds, made while another one was in flight, all saved
\* the same key and its single row counts every one of them
C12_Witness ==
  /\ \A s \in Savers : saver[s].outcome = "ok"
  /\ Cardinality({s \in Savers : saver[s].overlapped}) = MaxSavers - 1
  /\ \E s1, s2 \in Savers : saver[s1].kind = "saveToMemory" /\ saver[s2].kind = "POST /memory"
  /\ Cardinality(SavedOn(MemKey("hello", "en", "zh"))) = MaxSavers
  /\ \E r \in rows : r.key = MemKey("hello", "en", "zh") /\ r.use_count = MaxSavers
  /\ Cardinality(rows) = 1

\* ------------------------------------------------------------------------
\* Properties of provider selection (SpecSelect)
\* ------------------------------------------------------------------------

\* the position of a provider in the priority order
RECURSIVE IndexIn(_, _)
IndexIn(seq, x) == IF seq = <<>> THEN 1 ELSE IF Head(seq) = x THEN 1 ELSE 1 + IndexIn(Tail(seq), x)

\* a provider has a usable key
Usable(apiKeys, p) == p \in DOMAIN apiKeys /\ apiKeys[p] # ""

\* what the selection has to give for apiKeys and a requested provider
RightChoice(apiKeys, requested, call) ==
  /\ call.apiKey # ""
  /\ Usable(apiKeys, call.provider)
  /\ call.apiKey = apiKeys[call.provider]
  /\ IF requested # None /\ Usable(apiKeys, requested)
       THEN call.provider = requested
       ELSE \A q \in DOMAIN apiKeys :
              Usable(apiKeys, q) =>
                IndexIn(ProviderOrder, call.provider) <= IndexIn(ProviderOrder, q)

\* no provider has a usable key
NoUsableKey(apiKeys) == \A p \in DOMAIN apiKeys : ~Usable(apiKeys, p)

\* every chat call of the three functions went to the right provider with
\* that provider's non-empty key
ChatCallsRight ==
  /\ tpc # "idle" => \A i \in 1..Len(tTrace.chat) :
                       RightChoice(tArgs.apiKeys, tArgs.model, tTrace.chat[i])
  /\ bpc # "idle" => \A i \in 1..Len(bTrace) :
                       RightChoice(bArgs.apiKeys, bArgs.model, bTrace[i])
  /\ rfpc # "idle" => \A i \in 1..Len(rfTrace) :
                        RightChoice(rfReq.apiKeys, rfReq.model, rfTrace[i])

\* C13 as stated: chat calls go to the right provider, and a call without
\* a usable key fails with 'No API key configured'.
C13_SelectionOrNoKeyError ==
  /\ ChatCallsRight
  /\ (tpc = "done" /\ NoUsableKey(tArgs.apiKeys)) =>
       (tState = "rejected" /\ tValue.message = "No API key configured")
  /\ (bpc = "done" /\ NoUsableKey(bArgs.apiKeys)) =>
       (bState = "rejected" /\ bValue.message = "No API key configured")
  /\ (rfpc = "done" /\ NoUsableKey(rfReq.apiKeys)) =>
       (rfState = "rejected" /\ rfValue.message = "No API key configured")

\* C13 amended: chat calls go to the requested provider when its key is
\* non-empty, else to the first provider of the priority order with a
\* non-empty key, always with that provider's key; without a usable key no
\* chat call is made and a call that reaches provider selection fails:
\* translateWithUserKeys (unless it returned the text unchanged or a cached
\* translation) and translateBatch with 'No API key configured',
\* refineTranslation with 'No API key configured. Please add an API key in
\* settings.'.
C13_SelectionOrNoKeyErrorAtSelection ==
  /\ ChatCallsRight
  /\ (tpc # "idle" /\ NoUsableKey(tArgs.apiKeys)) => tTrace.chat = <<>>
  /\ (tpc = "done" /\ NoUsableKey(tArgs.apiKeys)) =>
       \/ tState = "rejected" /\ tValue.message = "No API key configured"
       \/ tState = "fulfilled" /\ tValue.cached
       \/ tState = "fulfilled" /\ tArgs.sourceLang = tArgs.targetLang
  /\ (bpc # "idle" /\ NoUsableKey(bArgs.apiKeys)) => bTrace = <<>>
  /\ (bpc = "done" /\ NoUsableKey(bArgs.apiKeys)) =>
       (bState = "rejected" /\ bValue.message = "No API key configured")
  /\ (rfpc # "idle" /\ NoUsableKey(rfReq.apiKeys)) => rfTrace = <<>>
  /\ (rfpc = "done" /\ NoUsableKey(rfReq.apiKeys)) =>
       (rfState = "rejected"
        /\ rfValue.message = "No API key configured. Please add an API key in settings.")
  /\ (tpc = "done" /\ tState = "rejected" /\ tValue.message = "No API key configured") =>
       NoUsableKey(tArgs.apiKeys)
  /\ (bpc = "done" /\ bState = "rejected" /\ bValue.message = "No API key configured") =>
       NoUsableKey(bArgs.apiKeys)

\* the requested provider has an empty key and the call went to the first
\* provider of the priority order that has one, with that provider's key
C13_Witness ==
  /\ rfpc = "done"
  /\ rfState = "fulfilled"
  /\ rfReq.model = "openai"
  /\ DOMAIN rfReq.apiKeys = {"openai", "claude"}
  /\ rfReq.apiKeys.openai = ""
  /\ rfReq.apiKeys.claude = "k2"
  /\ Len(rfTrace) = 1
  /\ rfTrace[1].provider = "claude"
  /\ rfTrace[1].apiKey = "k2"
  /\ rfTrace[1].model = DefaultModel("claude")

\* ------------------------------------------------------------------------
\* Properties of request validation (SpecValidate)
\* ------------------------------------------------------------------------

\* a body of POST /translate that has to be refused
InvalidTranslate(body) ==
  \/ ~Truthy(body.text)
  \/ ~Truthy(body.targetLang)
  \/ ~AnyNonEmptyKey(body)

\* a body of POST /translate/batch that has to be refused
InvalidBatch(body) ==
  \/ body.texts.kind # "array"
  \/ Len(body.texts.items) = 0
  \/ Len(body.texts.items) > MAX_TEXTS
  \/ ~Truthy(body.targetLang)
  \/ ~AnyNonEmptyKey(body)

\* C14: a request is answered with 400 exactly when it is invalid (for a
\* batch: texts missing, not an array, empty or longer than 50, targetLang
\* missing, no usable key; 50 texts are accepted), and for a refused
\* request no cache read, provider call, cache write or memory write has
\* happened.
C14_InvalidRefusedBeforeAnyWork ==
  /\ hpc = "responded" => (hResp.status = 400 <=> InvalidTranslate(hBody))
  /\ hpc \in {"translating", "saving"} => ~InvalidTranslate(hBody)
  /\ (hpc = "responded" /\ hResp.status = 400) =>
       /\ tpc = "idle"
       /\ tTrace = NoTrace
       /\ hMemWrite = "none"
       /\ mem = <<>>
  /\ qpc = "responded" => (qResp.status = 400 <=> InvalidBatch(qBody))
  /\ qpc = "translating" => ~InvalidBatch(qBody)
  /\ (qpc = "responded" /\ qResp.status = 400) =>
       /\ bpc = "idle"
       /\ bState = "idle"
       /\ bTrace = <<>>
       /\ kvQueue = {}
  /\ (qpc = "responded" /\ Len(qBody.texts.items) = MAX_TEXTS /\ ~InvalidBatch(qBody)) =>
       qResp.status # 400

\* a batch of 51 texts, otherwise valid, was refused and nothing was done
C14_Witness ==
  /\ qpc = "responded"
  /\ qResp.status = 400
  /\ qResp.error = "Maximum 50 texts per batch"
  /\ Len(qBody.texts.items) = MAX_TEXTS + 1
  /\ AnyNonEmptyKey(qBody)
  /\ bpc = "idle"

\* ------------------------------------------------------------------------
\* Properties of translateBatch (SpecBatch)
\* ------------------------------------------------------------------------

\* the fragments of the call that were not found in the cache, by position
IsMiss(i) == bArgs.texts[i] \notin DOMAIN bCached

\* the number of the chat call that carried the fragment at position i, and
\* the marker it was sent under
MissRank(i) == Cardinality({p \in 1..i : IsMiss(p)})
CallOf(i) == ((MissRank(i) - 1) \div BATCH_SIZE) + 1
MarkerOf(i) == ((MissRank(i) - 1) % BATCH_SIZE) + 1

\* the pieces of a response that follow marker [k]
MarkerItems(resp, k) == {x \in 1..Len(resp) : resp[x].k = k}
TextAfter(resp, k) == resp[CHOOSE x \in MarkerItems(resp, k) : TRUE].text

\* the response holds each of [1]..[n] once, each followed by a translation
HasAllMarkers(resp, n) ==
  \A k \in 1..n : /\ Cardinality(MarkerItems(resp, k)) = 1
                  /\ BTrim(TextAfter(resp, k)) # ""

\* translateBatch has fulfilled
BatchDone == bpc = "done" /\ bState = "fulfilled"

\* C15: when the response to a combined call holds the markers [1]..[n],
\* each followed by a translation, the fragment sent as [k] gets the text
\* that follows [k], and translations is in the order of texts.
C15_DemuxByMarker ==
  BatchDone =>
    /\ Len(bValue.translations) = Len(bArgs.texts)
    /\ \A i \in 1..Len(bArgs.texts) :
         IsMiss(i) =>
           LET resp == bTrace[CallOf(i)].response[1]
           IN HasAllMarkers(resp, Len(bTrace[CallOf(i)].batch)) =>
                bValue.translations[i] = BTrim(TextAfter(resp, MarkerOf(i)))

\* C16: a fragment whose marker does not occur in the response gets its own
\* source text, a fragment whose marker occurs (once, followed by text)
\* gets the text after its own marker, and the call does not fail.
C16_MissingMarkerFallsBack ==
  /\ (bpc = "done" /\ bTrace # <<>> /\ bTrace[Len(bTrace)].response # <<>>) =>
       bState = "fulfilled"
  /\ BatchDone =>
       \A i \in 1..Len(bArgs.texts) :
         IsMiss(i) =>
           LET resp == bTrace[CallOf(i)].response[1]
               k == MarkerOf(i)
           IN IF MarkerItems(resp, k) = {}
                THEN bValue.translations[i] = bArgs.texts[i]
                ELSE (Cardinality(MarkerItems(resp, k)) = 1 /\ BTrim(TextAfter(resp, k)) # "")
                       => bValue.translations[i] = BTrim(TextAfter(resp, k))

\* the total number of characters of a batch
RECURSIVE Chars(_)
Chars(batch) == IF batch = <<>> THEN 0 ELSE TextLen(Head(batch)) + Chars(Tail(batch))

\* C17: no combined call carries more than BATCH_SIZE fragments, and none
\* carries more characters than the character budget unless it carries a
\* single fragment.
C17_BatchesBoundedByCountAndChars ==
  \A j \in 1..Len(bTrace) :
    /\ Len(bTrace[j].batch) <= BATCH_SIZE
    /\ Chars(bTrace[j].batch) <= MAX_TEXT_LENGTH \/ Len(bTrace[j].batch) = 1

\* the fragment a cache key was made from
KeyText(key) == key[4][2][1]

\* C20: the translatedText of every cache entry is a translation the
\* provider returned, never the fragment's own source text and never empty.
C20_CacheHoldsProviderTranslations ==
  \A key \in DOMAIN kv :
    /\ kv[key].translatedText # ""
    /\ kv[key].translatedText # KeyText(key)

\* ------------------------------------------------------------------------
\* Properties of the batch splitter (SpecSplit)
\* ------------------------------------------------------------------------

\* the batches one after the other
RECURSIVE Flatten(_)
Flatten(bs) == IF bs = <<>> THEN <<>> ELSE Head(bs) \o Flatten(Tail(bs))

\* the total text length of a batch
RECURSIVE TotalLen(_)
TotalLen(b) == IF b = <<>> THEN 0 ELSE Head(b).len + TotalLen(Tail(b))

\* C18: the batches, one after the other, are the input list (every item
\* once, in order); no batch is empty or holds more than 50 items; a batch
\* of more than 2500 characters consists of one item.
C18_SplitterPartitionsWithinLimits ==
  /\ spc = "loop" => Flatten(batches) \o currentBatch = SubSeq(textNodes, 1, sI - 1)
  /\ spc = "done" => Flatten(batches) = textNodes
  /\ \A j \in 1..Len(batches) :
       /\ batches[j] # <<>>
       /\ Len(batches[j]) <= MAX_BATCH_SIZE
       /\ TotalLen(batches[j]) > MAX_TEXT_LENGTH => Len(batches[j]) = 1

\* a list with oversized items was split: an oversized item sits alone in
\* its batch between full and partial batches
C18_Witness ==
  /\ spc = "done"
  /\ Len(textNodes) = MAX_BATCH_SIZE + 5
  /\ Len(batches) >= 5
  /\ \E j \in 2..Len(batches) :
       /\ Len(batches[j]) = 1
       /\ batches[j][1].len > MAX_TEXT_LENGTH
  /\ Flatten(batches) = textNodes

\* ------------------------------------------------------------------------
\* Properties of generateCacheKey (SpecKey)
\* ------------------------------------------------------------------------

\* contextType with the omitted argument read as 'general'
ContextOf(args) == IF args.contextType = None THEN "general" ELSE args.contextType

\* two calls name the same fragment
SameKeyArgs(a, b) ==
  /\ a.text = b.text
  /\ a.sourceLang = b.sourceLang
  /\ a.targetLang = b.targetLang
  /\ ContextOf(a) = ContextOf(b)

\* C19: calls with equal (text, sourceLang, targetLang, contextType) give
\* the same key, and an omitted contextType gives the key of 'general'.
C19_KeyDeterministicDefaultGeneral ==
  \A i, j \in 1..Len(keyCalls) :
    SameKeyArgs(keyCalls[i].args, keyCalls[j].args) => keyCalls[i].key = keyCalls[j].key

\* one call without contextType and one with 'general' gave the same key
C19_Witness ==
  /\ Len(keyCalls) = 2
  /\ keyCalls[1].args.contextType = None
  /\ keyCalls[2].args.contextType = "general"
  /\ keyCalls[1].args.text = keyCalls[2].args.text
  /\ keyCalls[1].args.sourceLang = keyCalls[2].args.sourceLang
  /\ keyCalls[1].args.targetLang = keyCalls[2].args.targetLang
  /\ keyCalls[1].key = keyCalls[2].key

\* ------------------------------------------------------------------------
\* Properties of the messages of refineTranslation (SpecRefine)
\* ------------------------------------------------------------------------

\* C21: every chat call of refineTranslation carries one system message,
\* then the last 20 messages (or all, if fewer) of the history of its own
\* request in their order, then the instruction as the final user message:
\* at most 22 messages, and nothing of an earlier call.
C21_RefineWindowOfHistory ==
  \A c \in 1..Len(rfTrace) :
    LET m == rfTrace[c].messages
        h == rfTrace[c].request.history
        n == IF Len(h) < 20 THEN Len(h) ELSE 20
    IN /\ Len(m) = n + 2
       /\ Len(m) <= 22
       /\ m[1].role = "system"
       /\ \A k \in 1..n : m[1 + k] = h[Len(h) - n + k]
       /\ m[Len(m)] = [role |-> "user", content |-> rfTrace[c].request.instruction]

\* a call with a history of 41 messages sent 22 messages, and the next call,
\* with an empty history, sent the system message and the instruction only
C21_Witness ==
  /\ Len(rfTrace) = 2
  /\ Len(rfTrace[1].request.history) = 41
  /\ Len(rfTrace[1].messages) = 22
  /\ rfTrace[1].messages[2].content = "h22"
  /\ rfTrace[2].request.history = <<>>
  /\ Len(rfTrace[2].messages) = 2

\* ------------------------------------------------------------------------
\* Properties of detectLanguage of the free providers (SpecDetect)
\* ------------------------------------------------------------------------

\* a finished call returned what the statement says
DetectResultRight ==
  dtpc = "done" =>
    /\ dtState = "fulfilled"
    /\ dtCleared
    /\ IF dtVendor[1] = "ok"
         THEN dtValue = (IF dtVendor[2] \in {"", None} THEN "en" ELSE dtVendor[2])
         ELSE dtValue = (IF 10 * dtText.cjk > 3 * dtText.len THEN "zh" ELSE "en")

\* C22: detectLanguage never rejects and every call completes: with the
\* detected language (or 'en' when none is reported) when the network call
\* succeeded before the timeout, with the heuristic result ('zh' when more
\* than 30% of the characters are CJK, otherwise 'en') when it failed or
\* was aborted, and with the timer cleared.
C22_DetectAlwaysCompletes ==
  /\ [](dtState # "rejected" /\ DetectResultRight)
  /\ (dtpc # "idle" ~> dtpc = "done")

\* the timeout aborted the network call of a text that is mostly CJK, and
\* the call completed with 'zh'
C22_Witness ==
  /\ dtpc = "done"
  /\ dtVendor[1] = "aborted"
  /\ dtTimer = "fired"
  /\ dtText = [len |-> 10, cjk |-> 4]
  /\ dtValue = "zh"
  /\ dtCleared

\* ------------------------------------------------------------------------
\* The dual route without a usable credential (SpecDual)
\* ------------------------------------------------------------------------

\* C23: a valid dual request without a usable credential never starts the
\* LLM path (no cache read, no provider call); its llm half is
\* {translatedText: null, model: null, no error, available: false}, and
\* the machine half is run through the racer and reported as usual.
C23_NoCredentialSkipsLlmOnly ==
  (dpc # "idle" /\ ValidDual /\ ~AnyNonEmptyKey(dBody)) =>
    /\ tpc = "idle"
    /\ tState = "idle"
    /\ tTrace = NoTrace
    /\ ftState # "idle"
    /\ \A b \in BackendSet : bstate[b] # "idle"
    /\ dpc = "responded" =>
         /\ dResp.status = 200
         /\ dResp.data.llm = [translatedText |-> None, model |-> None, error |-> <<>>,
                              available |-> FALSE]
         /\ ftState \in {"fulfilled", "rejected"}
         /\ ftState = "fulfilled" =>
              /\ dResp.data.machine.translatedText = ftValue.translatedText
              /\ dResp.data.machine.provider = ftValue.provider
              /\ dResp.data.machine.error = <<>>
         /\ ftState = "rejected" =>
              /\ dResp.data.machine.translatedText = None
              /\ dResp.data.machine.error = <<ftValue.message>>

\* apiKeys was sent with an empty key only; the racer delivered a
\* translation and the llm half is the empty one
C23_Witness ==
  /\ dpc = "responded"
  /\ ValidDual
  /\ dBody.hasApiKeys
  /\ ~AnyNonEmptyKey(dBody)
  /\ ftState = "fulfilled"
  /\ dResp.data.machine.translatedText # None
  /\ dResp.data.llm.available = FALSE
  /\ dResp.data.llm.translatedText = None

\* ------------------------------------------------------------------------
\* Cache hits of translateBatch (SpecBatch)
\* ------------------------------------------------------------------------

\* the number of fragments of the call that missed the cache
Misses == Cardinality({i \in 1..Len(bArgs.texts) : IsMiss(i)})

\* C24: no fragment found in the cache is part of a provider prompt; a
\* cached fragment is returned with its cached translation; a call that
\* fulfils has made ceil(misses / 20) provider calls, none when every
\* fragment was cached.
C24_OnlyMissesAreSent ==
  /\ \A j \in 1..Len(bTrace) :
       \A x \in 1..Len(bTrace[j].batch) : bTrace[j].batch[x] \notin DOMAIN bCached
  /\ BatchDone =>
       /\ \A i \in 1..Len(bArgs.texts) :
            ~IsMiss(i) => bValue.translations[i] = bCached[bArgs.texts[i]]
       /\ Len(bTrace) = (Misses + BATCH_SIZE - 1) \div BATCH_SIZE
       /\ Misses = 0 => bTrace = <<>>

\* of two fragments the first was cached: one provider call carried the
\* second alone, and the first came back with its cached translation
C24_Witness ==
  /\ BatchDone
  /\ bArgs.texts = <<"a", "b">>
  /\ DOMAIN bCached = {"a"}
  /\ Len(bTrace) = 1
  /\ bTrace[1].batch = <<"b">>
  /\ bValue.translations[1] = bCached["a"]

\* ------------------------------------------------------------------------
\* Properties of page translation (SpecPage)
\* ------------------------------------------------------------------------

\* C25: at most one call of startWebTranslation is processing batches at
\* any time, and isTranslating is true exactly while a run is in progress.
C25_OneRunAndFlagExact ==
  /\ Cardinality(Processing) <= 1
  /\ isTranslating = (Processing # {})

\* C26: once stopWebTranslation has returned, and until startWebTranslation
\* is called again, no translation node is in the page and no run that was
\* started earlier inserts a node or sends a batch request.
C26_NothingAfterStop ==
  pgQuiet => (transNodes = {} /\ pgLate = {})

\* ------------------------------------------------------------------------
\* Properties of the useRefine hook (SpecHook)
\* ------------------------------------------------------------------------

\* the ids of the messages of the conversation
MessageIds == {messages[i].id : i \in 1..Len(messages)}

\* C27: the user message of a failed refine call is no longer in the
\* conversation; right after a call that did not overlap with another call
\* or a reset, isRefining is false and, if the call failed, the messages
\* are those from before the call and error holds the failure message, and
\* if it succeeded, the messages from before the call are followed by one
\* user message and one assistant message.
C27_FailedRefineLeavesNoTrace ==
  /\ \A c \in HookCalls : hkCall[c].outcome = "failed" => hkCall[c].userId \notin MessageIds
  /\ (hkLast # 0 /\ hkCall[hkLast].alone) =>
       /\ ~isRefining
       /\ hkCall[hkLast].outcome = "failed" =>
            /\ messages = hkCall[hkLast].before
            /\ hkError # <<>>
            /\ hkError[1] \in HookFailures
       /\ hkCall[hkLast].outcome = "ok" =>
            /\ Len(messages) = Len(hkCall[hkLast].before) + 2
            /\ SubSeq(messages, 1, Len(messages) - 2) = hkCall[hkLast].before
            /\ messages[Len(messages) - 1].role = "user"
            /\ messages[Len(messages) - 1].content = hkCall[hkLast].instruction
            /\ messages[Len(messages)].role = "assistant"

\* after one complete turn, a second call failed and the conversation is
\* the one turn again
C27_Witness ==
  /\ hkLast = 2
  /\ hkCall[1].outcome = "ok"
  /\ hkCall[1].alone
  /\ hkCall[2].outcome = "failed"
  /\ hkCall[2].alone
  /\ Len(messages) = 2
  /\ hkError = <<"No refined text returned">>
  /\ ~isRefining

\* C28: whenever no refine call is in flight, the messages alternate user,
\* assistant, starting with a user message and ending with an assistant
\* message.
C28_CompleteTurnsOnly ==
  HookInFlight = {} =>
    /\ Len(messages) % 2 = 0
    /\ \A i \in 1..Len(messages) :
         messages[i].role = (IF i % 2 = 1 THEN "user" ELSE "assistant")

\* ------------------------------------------------------------------------
\* Properties of overlapping dual translations (SpecView)
\* ------------------------------------------------------------------------

\* the requests that have been answered with a result
Answered == {q \in ViewRequests : vwReq[q].outcome = "ok"}

\* C29: the result on display is never older than a result that has
\* arrived: once the response of a request has arrived, neither the hook
\* nor the viewer shows the response of a request issued before it.
C29_LatestRequestWins ==
  \A q \in Answered :
    /\ dualResult # 0 => dualResult >= q
    /\ pdfResult # 0 => pdfResult >= q

\* ------------------------------------------------------------------------
\* The cache across providers and models (SpecSelect)
\* ------------------------------------------------------------------------

\* the cache key of the fragment of the call: text, languages, context type
FragmentKey == generateCacheKey(tArgs.text, tArgs.sourceLang, tArgs.targetLang, tArgs.ctx)

\* the call of translateWithUserKeys found the fragment's entry in place:
\* useCache on, languages differ, the read did not fail, the entry had not
\* expired, and the call itself wrote nothing
EntryInPlace ==
  /\ tpc \notin {"idle", "cacheRead"}
  /\ tArgs.useCache
  /\ tArgs.sourceLang # tArgs.targetLang
  /\ tTrace.kvRead # "fail"
  /\ ~tTrace.expired
  /\ tTrace.kvWrite = "none"
  /\ FragmentKey \in DOMAIN kv

\* C30: a call that finds the fragment's entry in the cache is answered
\* from it, whatever provider or modelId it requests and whatever keys it
\* holds: cached = true, the entry's translation and model, no chat call.
C30_CacheSharedAcrossModels ==
  EntryInPlace =>
    /\ tpc = "done"
    /\ tState = "fulfilled"
    /\ tValue.cached
    /\ tValue.translatedText = kv[FragmentKey].translatedText
    /\ tValue.model = kv[FragmentKey].model
    /\ tTrace.chat = <<>>

\* the entry was stored with openai; a call that requests claude with a
\* modelId and holds a claude key is answered from it
C30_Witness ==
  /\ EntryInPlace
  /\ tpc = "done"
  /\ tArgs.model = "claude"
  /\ tArgs.modelId = "claude-3-haiku"
  /\ DOMAIN tArgs.apiKeys = {"openai", "claude"}
  /\ tArgs.apiKeys.claude = "k2"
  /\ tValue.cached
  /\ tValue.model = "openai"
  /\ tValue.translatedText = "tr0"
  /\ tTrace.chat = <<>>

====
